---- MODULE Spec2Model ----
(***************************************************************************)
(* The optimistic-concurrency update protocol of the micro-actions web     *)
(* editor: GitHubAPI.updateSingleProject / deleteSingleProject             *)
(* (docs/github-api.js, current revision) against the remote store that    *)
(* holds docs/data/projects.json.                                          *)
(*                                                                         *)
(* The store holds the record sequence and its blob sha.  A client is one  *)
(* browser session running one operation; its steps are the code between   *)
(* two network awaits.  Records are functions from field names to values,  *)
(* so that a field can be absent (JavaScript `delete`), and `updates` is   *)
(* a function whose domain is the set of own properties of the argument.   *)
(***************************************************************************)
EXTENDS Integers, Sequences, FiniteSets, TLC

VARIABLES
    store,   \* the remote file: [sha, doc]
    cl,      \* per client: the locals of the running operation
    clock,   \* Date.now(), advanced on every read
    faults,  \* transport / server faults the environment may still inject
    log,     \* per client: the requests it sent, in order (history)
    hist     \* per client: last fetched items, last body sent, ... (history)

vars == <<store, cl, clock, faults, log, hist>>

(***************************************************************************)
(* Bounds of the model and constants of the program.                       *)
(***************************************************************************)
MaxDocLen == 3      \* longest document drawn as an input of the patch runs
MaxFaults == 2      \* faults injected per run

maxRetries == 3         \* const maxRetries = 3
maxAttempts == 3        \* const maxAttempts = 3 (fetch loop)
updateMaxAttempts == 3  \* const updateMaxAttempts = 3 (PUT loop)
NoSha == 0              \* let currentSha = null

Clients == {"c1", "c2"}
Null == "null"
NoResponse == "undefined"
NoDoc == <<>>

(***************************************************************************)
(* Records of projects.json used as inputs.                                *)
(***************************************************************************)
RecA == [hash |-> "a", title |-> "ta", description |-> "da",
         media |-> <<"ua">>, backgroundImage |-> "ua", source |-> "sa"]
RecB == [hash |-> "b", title |-> "tb", description |-> "db",
         media |-> <<>>, source |-> "sb"]
RecA2 == [hash |-> "a", title |-> "tx", description |-> "dx",
          media |-> <<>>, source |-> "sx"]
RecC == [hash |-> "c", title |-> "tc", description |-> "dc",
         media |-> <<"uc">>, backgroundImage |-> "uz", source |-> "sc", lastEdited |-> 0]

\* the document the pages were loaded from
Doc0 == <<RecA, RecB>>

(***************************************************************************)
(* Records and the patch engine.                                           *)
(***************************************************************************)
HasOwn(obj, k) == k \in DOMAIN obj

SetField(r, k, v) == [f \in DOMAIN r \cup {k} |-> IF f = k THEN v ELSE r[f]]

DeleteField(r, k) == [f \in DOMAIN r \ {k} |-> r[f]]

Hashes(items) == {items[i]["hash"] : i \in 1..Len(items)}

\* Array.prototype.findIndex, 1-based; 0 stands for -1
FindIndex(items, itemHash) ==
    IF \E i \in 1..Len(items) : items[i]["hash"] = itemHash
    THEN CHOOSE i \in 1..Len(items) :
            /\ items[i]["hash"] = itemHash
            /\ \A j \in 1..(i - 1) : items[j]["hash"] # itemHash
    ELSE 0

\* (mutant) the record is taken from the copy the page was loaded with
PageItem(currentContent, itemIndex) ==
    LET h == currentContent[itemIndex]["hash"]
    IN  IF \E i \in DOMAIN Doc0 : Doc0[i]["hash"] = h
        THEN Doc0[CHOOSE i \in DOMAIN Doc0 : Doc0[i]["hash"] = h]
        ELSE currentContent[itemIndex]

\* const originalItem = currentContent[itemIndex]
OriginalItem(currentContent, itemIndex) == currentContent[itemIndex]

\* (mutant) every own property of updates is copied: { ...originalItem, ...updates }
ApplyFieldsAssignAll(originalItem, updates) ==
    [f \in DOMAIN originalItem \cup (DOMAIN updates \ {"backgroundImage"}) |->
        IF f \in DOMAIN updates \ {"backgroundImage"} THEN updates[f] ELSE originalItem[f]]

\* the spread copy, then title, description and media when updates has them
ApplyFields(originalItem, updates) ==
    LET r1 == IF HasOwn(updates, "title")
              THEN SetField(originalItem, "title", updates["title"])
              ELSE originalItem
        r2 == IF HasOwn(updates, "description")
              THEN SetField(r1, "description", updates["description"])
              ELSE r1
    IN  IF HasOwn(updates, "media")
        THEN SetField(r2, "media", updates["media"])
        ELSE r2

\* (mutant) a truthiness test: backgroundImage null is taken for "not given"
ApplyBackgroundTruthy(item, updates) ==
    IF HasOwn(updates, "backgroundImage") /\ updates["backgroundImage"] # Null
    THEN SetField(item, "backgroundImage", updates["backgroundImage"])
    ELSE item

\* backgroundImage: set when given, removed when explicitly null
ApplyBackground(item, updates) ==
    IF HasOwn(updates, "backgroundImage")
    THEN IF updates["backgroundImage"] = Null
         THEN DeleteField(item, "backgroundImage")
         ELSE SetField(item, "backgroundImage", updates["backgroundImage"])
    ELSE item

\* the updated item, stamped with lastEdited
UpdatedItem(originalItem, updates, now) ==
    SetField(ApplyBackground(ApplyFields(originalItem, updates), updates),
             "lastEdited", now)

\* (mutant) the replacement also stamps every other record
ReplaceAtStampAll(currentContent, itemIndex, updatedItem) ==
    [i \in 1..Len(currentContent) |->
        IF i = itemIndex
        THEN updatedItem
        ELSE SetField(currentContent[i], "lastEdited", updatedItem["lastEdited"])]

\* currentContent[itemIndex] = updatedItem
ReplaceAt(currentContent, itemIndex, updatedItem) ==
    [i \in 1..Len(currentContent) |->
        IF i = itemIndex THEN updatedItem ELSE currentContent[i]]

\* currentContent.splice(itemIndex, 1)
Splice(currentContent, itemIndex) ==
    [i \in 1..(Len(currentContent) - 1) |->
        IF i < itemIndex THEN currentContent[i] ELSE currentContent[i + 1]]

\* (mutant) the uniqueness check is missing
NoDuplicateCheck(currentContent) == FALSE

\* new Set(currentContent.map(i => i.hash)).size !== currentContent.length
HasDuplicateHashes(currentContent) ==
    Cardinality(Hashes(currentContent)) # Len(currentContent)

\* the two "was not updated correctly" checks after the replacement
EchoFails(item, updates) ==
    \/ HasOwn(updates, "title") /\ item["title"] # updates["title"]
    \/ HasOwn(updates, "description") /\ item["description"] # updates["description"]

\* the sequence the operation is about to serialise
Patched(op, items, itemIndex, updates, now) ==
    IF op = "update"
    THEN ReplaceAt(items, itemIndex,
                   UpdatedItem(OriginalItem(items, itemIndex), updates, now))
    ELSE Splice(items, itemIndex)

\* the data integrity checks between the patch and the encode
IntegrityFails(op, items, patched, itemIndex, updates) ==
    IF op = "update"
    THEN HasDuplicateHashes(patched) \/ EchoFails(patched[itemIndex], updates)
    ELSE Len(patched) # Len(items) - 1 \/ HasDuplicateHashes(patched)

(***************************************************************************)
(* The locals of one operation and its control flow.                       *)
(***************************************************************************)
Idle(op, itemHash, updates) ==
    [pc |-> "idle", op |-> op, itemHash |-> itemHash, updates |-> updates,
     retryCount |-> 0, attempt |-> 0, currentSha |-> NoSha,
     currentContent |-> NoDoc, updateResponse |-> NoResponse, error |-> "none"]

Off == [Idle("none", "none", <<>>) EXCEPT !.pc = "off"]

\* (mutant) a missing target is taken for a concurrency artifact and retried
FailRetryingNotFound(l, e) ==
    IF e = "NotFound" /\ l.retryCount < maxRetries
    THEN [l EXCEPT !.pc = "fetch", !.retryCount = @ + 1, !.attempt = 1,
                   !.currentSha = NoSha, !.currentContent = NoDoc]
    ELSE [l EXCEPT !.pc = "failed", !.error = e]

\* throw new Error(...), rethrown by the outer catch
Fail(l, e) == [l EXCEPT !.pc = "failed", !.error = e]

\* (mutant) a retried cycle goes on with the attempts the previous one left
EnterSharedBudget(l, retryCount) ==
    [l EXCEPT !.pc = "fetch", !.retryCount = retryCount,
              !.attempt = IF retryCount = 0 THEN 1 ELSE l.attempt,
              !.currentSha = NoSha, !.currentContent = NoDoc,
              !.updateResponse = NoResponse]

\* entry of updateSingleProject / deleteSingleProject: fresh locals, fetch loop
Enter(l, retryCount) ==
    [l EXCEPT !.pc = "fetch", !.retryCount = retryCount, !.attempt = 1,
              !.currentSha = NoSha, !.currentContent = NoDoc,
              !.updateResponse = NoResponse]

\* (mutant) the retry repeats the PUT loop without fetching again
RetryWriteOnly(l) ==
    [l EXCEPT !.retryCount = @ + 1, !.attempt = 1, !.updateResponse = NoResponse]

\* return this.updateSingleProject(itemHash, updates, retryCount + 1)
Retry(l) == Enter(l, l.retryCount + 1)

\* (mutant) the operation patches the copy the page was loaded with
AssignedCallerCopy(l, result) ==
    [l EXCEPT !.currentSha = result.sha, !.currentContent = Doc0]

\* currentSha = result.sha; currentContent = result.items
Assigned(l, result) ==
    [l EXCEPT !.currentSha = result.sha, !.currentContent = result.items]

\* a fetch that returned: assignment, lookup, patch, integrity checks, encode
AfterFetch(l, result, now) ==
    LET got == Assigned(l, result)
        items == got.currentContent
        itemIndex == FindIndex(items, l.itemHash)
        patched == Patched(l.op, items, itemIndex, l.updates, now)
    IN  IF itemIndex = 0
        THEN Fail(got, "NotFound")
        ELSE IF IntegrityFails(l.op, items, patched, itemIndex, l.updates)
        THEN Fail([got EXCEPT !.currentContent = patched], "Integrity")
        ELSE [got EXCEPT !.pc = "write", !.attempt = 1,
                         !.currentContent = patched, !.updateResponse = NoResponse]

\* (mutant) the fetch loop makes one attempt too many
AfterFetchErrorOneMore(l) ==
    IF l.attempt <= maxAttempts
    THEN [l EXCEPT !.attempt = @ + 1]
    ELSE Fail(l, "Unavailable")

\* a fetch that threw inside the fetch loop
AfterFetchError(l) ==
    IF l.attempt < maxAttempts
    THEN [l EXCEPT !.attempt = @ + 1]
    ELSE Fail(l, "Unavailable")

\* the SHA-mismatch test inside the PUT loop
IsShaMismatchInLoop(r) == r \in {"409", "422_does_not_match"}

\* (mutant) the test after the loop misses the "is at ... but expected" wording
IsShaMismatchWithoutIsAt(r) == r \in {"409", "422_does_not_match"}

\* the SHA-mismatch test after the PUT loop
IsShaMismatchAfterLoop(r) == r \in {"409", "422_does_not_match", "422_is_at"}

\* (mutant) the retry limit after the loop is off by one
AfterLoopOneMore(l) ==
    IF l.updateResponse = NoResponse
    THEN Fail(l, "NetworkError")
    ELSE IF IsShaMismatchAfterLoop(l.updateResponse)
    THEN IF l.retryCount <= maxRetries
         THEN Retry(l)
         ELSE Fail(l, "ConcurrentUpdates")
    ELSE IF l.updateResponse = "403"
    THEN Fail(l, "PermissionDenied")
    ELSE Fail(l, "Failed")

\* the code after the PUT loop, reached with a response that is not ok
AfterLoop(l) ==
    IF l.updateResponse = NoResponse
    THEN Fail(l, "NetworkError")
    ELSE IF IsShaMismatchAfterLoop(l.updateResponse)
    THEN IF l.retryCount < maxRetries
         THEN Retry(l)
         ELSE Fail(l, "ConcurrentUpdates")
    ELSE IF l.updateResponse = "403"
    THEN Fail(l, "PermissionDenied")
    ELSE Fail(l, "Failed")

\* (mutant) the catch of the last PUT attempt returns instead of falling out of the loop
AfterResponseSwallows(l, r) ==
    LET seen == IF r = "neterr" THEN l ELSE [l EXCEPT !.updateResponse = r]
    IN  IF r = "ok"
        THEN [seen EXCEPT !.pc = "done"]
        ELSE IF r # "neterr" /\ IsShaMismatchInLoop(r) /\ l.retryCount < maxRetries
        THEN Retry(seen)
        ELSE IF l.attempt < updateMaxAttempts
        THEN [seen EXCEPT !.attempt = @ + 1]
        ELSE IF r = "neterr"
        THEN [seen EXCEPT !.pc = "done"]
        ELSE AfterLoop(seen)

\* one iteration of the PUT loop whose request got answer r ("neterr": fetch threw)
AfterResponse(l, r) ==
    LET seen == IF r = "neterr" THEN l ELSE [l EXCEPT !.updateResponse = r]
    IN  IF r = "ok"
        THEN [seen EXCEPT !.pc = "done"]
        ELSE IF r # "neterr" /\ IsShaMismatchInLoop(r) /\ l.retryCount < maxRetries
        THEN Retry(seen)
        ELSE IF l.attempt < updateMaxAttempts
        THEN [seen EXCEPT !.attempt = @ + 1]
        ELSE AfterLoop(seen)

\* the body of the PUT request
WriteRequest(l) == [sha |-> l.currentSha, content |-> l.currentContent]

(***************************************************************************)
(* The remote store (GitHub contents API), as the client sees it.          *)
(***************************************************************************)
\* how the store words a rejected precondition
ConflictSignals == {"409", "422_does_not_match", "422_is_at"}

FaultSignals == {"500", "403", "neterr"}

StoreAnswers(req) ==
    (IF req.sha = store.sha THEN {"ok"} ELSE ConflictSignals)
    \cup (IF faults > 0 THEN FaultSignals ELSE {})

(***************************************************************************)
(* Inputs.                                                                 *)
(***************************************************************************)
ClientTitle(c) == IF c = "c1" THEN "t1" ELSE "t2"
ClientDescription(c) == IF c = "c1" THEN "d1" ELSE "d2"

NoUpdates == <<>>

RaceUpdates(c) ==
    {SetField(NoUpdates, "title", ClientTitle(c)),
     SetField(NoUpdates, "description", ClientDescription(c))}

RaceRequests(c) ==
    {Idle("update", h, u) : h \in Hashes(Doc0), u \in RaceUpdates(c)}
    \cup {Idle("delete", h, NoUpdates) : h \in Hashes(Doc0)}

Extend(S, k, V) == S \cup {SetField(u, k, v) : u \in S, v \in V}

PatchUpdates ==
    Extend(Extend(Extend(Extend(Extend({NoUpdates},
        "title", {"t9"}),
        "description", {"d9"}),
        "media", {<<"u9">>}),
        "backgroundImage", {"u9", Null}),
        "hash", {"b"})

PatchRequests ==
    {Idle("update", h, u) : h \in {"a", "b", "z"}, u \in PatchUpdates}
    \cup {Idle("delete", h, NoUpdates) : h \in {"a", "b", "z"}}

PatchRecords == {RecA, RecA2, RecB, RecC}

PatchDocs == UNION {[1..n -> PatchRecords] : n \in 0..MaxDocLen}

(***************************************************************************)
(* Initial states.                                                         *)
(***************************************************************************)
NoHist == [fetched |-> NoDoc, fetchedSha |-> NoSha, index |-> 0, now |-> 0,
           body |-> NoDoc, stale |-> 0]

InitCommon ==
    /\ clock = 0
    /\ log = [c \in Clients |-> <<>>]
    /\ hist = [c \in Clients |-> NoHist]

\* two sessions loaded the same document; no faults
InitCAS ==
    /\ InitCommon
    /\ store = [sha |-> 1, doc |-> Doc0]
    /\ cl \in {f \in [Clients -> UNION {RaceRequests(c) : c \in Clients}] :
                \A c \in Clients : f[c] \in RaceRequests(c)}
    /\ faults = 0

\* the same, with a fault budget
Init ==
    /\ InitCommon
    /\ store = [sha |-> 1, doc |-> Doc0]
    /\ cl \in {f \in [Clients -> UNION {RaceRequests(c) : c \in Clients}] :
                \A c \in Clients : f[c] \in RaceRequests(c)}
    /\ faults = MaxFaults

\* one session, any document, any request
InitPatch ==
    /\ InitCommon
    /\ store \in {[sha |-> 1, doc |-> d] : d \in PatchDocs}
    /\ cl \in {[c \in Clients |-> IF c = "c1" THEN r ELSE Off] : r \in PatchRequests}
    /\ faults = 0

(***************************************************************************)
(* Actions.                                                                *)
(***************************************************************************)
\* the caller invokes the operation
Begin(c) ==
    /\ cl[c].pc = "idle"
    /\ cl' = [cl EXCEPT ![c] = Enter(@, 0)]
    /\ UNCHANGED <<store, clock, faults, log, hist>>

\* fetchProjectsJsonWithSha returns the stored document and its sha
FetchOk(c) ==
    /\ cl[c].pc = "fetch"
    /\ LET result == [sha |-> store.sha, items |-> store.doc]
       IN  /\ cl' = [cl EXCEPT ![c] = AfterFetch(@, result, clock + 1)]
           /\ log' = [log EXCEPT ![c] = Append(@, [ev |-> "fetch", sha |-> result.sha,
                                                  resp |-> "ok",
                                                  cycle |-> cl[c].retryCount])]
           /\ hist' = [hist EXCEPT ![c].fetched = result.items,
                                   ![c].fetchedSha = result.sha,
                                   ![c].index = FindIndex(result.items, cl[c].itemHash),
                                   ![c].now = clock + 1]
    /\ clock' = clock + 1
    /\ UNCHANGED <<store, faults>>

\* fetchProjectsJsonWithSha throws
FetchFail(c) ==
    /\ cl[c].pc = "fetch"
    /\ faults > 0
    /\ faults' = faults - 1
    /\ cl' = [cl EXCEPT ![c] = AfterFetchError(@)]
    /\ log' = [log EXCEPT ![c] = Append(@, [ev |-> "fetch", sha |-> NoSha,
                                           resp |-> "neterr",
                                           cycle |-> cl[c].retryCount])]
    /\ UNCHANGED <<store, clock, hist>>

\* one PUT of the loop: the store answers, the client reacts
Put(c) ==
    /\ cl[c].pc = "write"
    /\ \E r \in StoreAnswers(WriteRequest(cl[c])) :
        LET req == WriteRequest(cl[c])
        IN  /\ store' = IF r = "ok"
                        THEN [sha |-> store.sha + 1, doc |-> req.content]
                        ELSE store
            /\ faults' = IF r \in FaultSignals THEN faults - 1 ELSE faults
            /\ cl' = [cl EXCEPT ![c] = AfterResponse(@, r)]
            /\ log' = [log EXCEPT ![c] = Append(@, [ev |-> "put", sha |-> req.sha,
                                                   resp |-> r,
                                                   cycle |-> cl[c].retryCount])]
            /\ hist' = [d \in Clients |->
                          IF d = c THEN [hist[d] EXCEPT !.body = req.content]
                          ELSE IF r = "ok" /\ cl[d].pc = "write"
                          THEN [hist[d] EXCEPT !.stale = @ + 1]
                          ELSE hist[d]]
    /\ UNCHANGED clock

\* the store applies the write and the response does not arrive: fetch throws
PutLost(c) ==
    /\ cl[c].pc = "write"
    /\ faults > 0
    /\ LET req == WriteRequest(cl[c])
       IN  /\ req.sha = store.sha
           /\ store' = [sha |-> store.sha + 1, doc |-> req.content]
           /\ faults' = faults - 1
           /\ cl' = [cl EXCEPT ![c] = AfterResponse(@, "neterr")]
           /\ log' = [log EXCEPT ![c] = Append(@, [ev |-> "put", sha |-> req.sha,
                                                  resp |-> "neterr",
                                                  cycle |-> cl[c].retryCount,
                                                  applied |-> TRUE])]
           /\ hist' = [d \in Clients |->
                         IF d = c THEN [hist[d] EXCEPT !.body = req.content]
                         ELSE IF cl[d].pc = "write"
                         THEN [hist[d] EXCEPT !.stale = @ + 1]
                         ELSE hist[d]]
    /\ UNCHANGED clock

NextCAS == \E c \in Clients : Begin(c) \/ FetchOk(c) \/ Put(c)

\* the two sessions, with responses that get lost
NextLost == \E c \in Clients : Begin(c) \/ FetchOk(c) \/ Put(c) \/ PutLost(c)

\* the two sessions, and one fault to come
InitLost ==
    /\ InitCommon
    /\ store = [sha |-> 1, doc |-> Doc0]
    /\ cl \in {f \in [Clients -> UNION {RaceRequests(c) : c \in Clients}] :
                \A c \in Clients : f[c] \in RaceRequests(c)}
    /\ faults = 1

SpecLost == InitLost /\ [][NextLost]_vars

Next == \E c \in Clients : Begin(c) \/ FetchOk(c) \/ FetchFail(c) \/ Put(c)

SpecCAS == InitCAS /\ [][NextCAS]_vars

SpecPatch == InitPatch /\ [][NextCAS]_vars

Spec == Init /\ [][Next]_vars

(***************************************************************************)
(* updateProjects(projectsData): the caller hands over the whole document  *)
(* as its page holds it; the call asks the store for the sha and writes    *)
(* the document under that sha.  Session c1 makes the call with the        *)
(* document it loaded and edited; session c2 runs an update or a delete    *)
(* of one record.                                                          *)
(***************************************************************************)
\* the document of the page with one edit of the caller
EditedDocs ==
    {ReplaceAt(Doc0, i, SetField(Doc0[i], "title", ClientTitle("c1")))
        : i \in DOMAIN Doc0}
    \cup {Splice(Doc0, i) : i \in DOMAIN Doc0}

\* entry of updateProjects(projectsData, retryCount)
EnterProjects(l, retryCount) ==
    [l EXCEPT !.pc = "getSha", !.retryCount = retryCount, !.currentSha = NoSha]

\* the caller's call
ProjectsRequests ==
    {SetField(EnterProjects(Idle("updateProjects", "none", NoUpdates), 0),
              "projectsData", d) : d \in EditedDocs}

\* the code after the PUT of updateProjects
AfterProjectsResponse(l, r) ==
    IF r = "ok"
    THEN [l EXCEPT !.pc = "done", !.updateResponse = r]
    ELSE IF r = "neterr"
    THEN Fail(l, "NetworkError")
    ELSE IF r \in ConflictSignals
    THEN IF l.retryCount < maxRetries
         THEN EnterProjects([l EXCEPT !.updateResponse = r], l.retryCount + 1)
         ELSE Fail([l EXCEPT !.updateResponse = r], "ConcurrentUpdates")
    ELSE IF r = "403"
    THEN Fail([l EXCEPT !.updateResponse = r], "PermissionDenied")
    ELSE Fail([l EXCEPT !.updateResponse = r], "Failed")

InitProjects ==
    /\ InitCommon
    /\ store = [sha |-> 1, doc |-> Doc0]
    /\ cl \in {f \in [Clients -> ProjectsRequests \cup RaceRequests("c2")] :
                f["c1"] \in ProjectsRequests /\ f["c2"] \in RaceRequests("c2")}
    /\ faults = 1

\* the GET for the sha: fileData.sha is kept, or the call throws
GetSha(c) ==
    /\ cl[c].pc = "getSha"
    /\ \E r \in {"ok"} \cup (IF faults > 0 THEN FaultSignals ELSE {}) :
        /\ cl' = [cl EXCEPT ![c] =
                     IF r = "ok"
                     THEN [@ EXCEPT !.pc = "putAll", !.currentSha = store.sha]
                     ELSE Fail(@, IF r = "403" THEN "PermissionDenied"
                                  ELSE "Unavailable")]
        /\ faults' = IF r = "ok" THEN faults ELSE faults - 1
        /\ log' = [log EXCEPT ![c] = Append(@, [ev |-> "fetch", sha |-> store.sha,
                                               resp |-> r,
                                               cycle |-> cl[c].retryCount])]
    /\ UNCHANGED <<store, clock, hist>>

\* the PUT of projectsData under fileData.sha
PutAll(c) ==
    /\ cl[c].pc = "putAll"
    /\ \E r \in StoreAnswers([sha |-> cl[c].currentSha]) :
        /\ store' = IF r = "ok"
                    THEN [sha |-> store.sha + 1, doc |-> cl[c]["projectsData"]]
                    ELSE store
        /\ faults' = IF r \in FaultSignals THEN faults - 1 ELSE faults
        /\ cl' = [cl EXCEPT ![c] = AfterProjectsResponse(@, r)]
        /\ log' = [log EXCEPT ![c] = Append(@, [ev |-> "put", sha |-> cl[c].currentSha,
                                               resp |-> r,
                                               cycle |-> cl[c].retryCount])]
    /\ UNCHANGED <<clock, hist>>

NextProjects ==
    \E c \in Clients : GetSha(c) \/ PutAll(c) \/ Begin(c) \/ FetchOk(c) \/ Put(c)

SpecProjects == InitProjects /\ [][NextProjects]_vars

(***************************************************************************)
(* The large-file read path of fetchProjectsJsonWithSha: the metadata      *)
(* response carries the sha but no payload, and the body comes with a      *)
(* second request.  Other sessions may write between the two requests.     *)
(***************************************************************************)
\* (mutant) the body is served from a cache that still holds the first version
RawResultCached(fileData, body) == [sha |-> fileData.sha, items |-> Doc0]

\* return { sha: fileData.sha, items, ... } with items parsed from the raw body
RawResult(fileData, body) == [sha |-> fileData.sha, items |-> body]

\* the metadata request returns without an inline payload
FetchMeta(c) ==
    /\ cl[c].pc = "fetch"
    /\ cl' = [cl EXCEPT ![c] = SetField([@ EXCEPT !.pc = "raw"], "fileData",
                                        [sha |-> store.sha])]
    /\ log' = [log EXCEPT ![c] = Append(@, [ev |-> "meta", sha |-> store.sha,
                                           resp |-> "ok",
                                           cycle |-> cl[c].retryCount])]
    /\ UNCHANGED <<store, clock, faults, hist>>

\* the raw request returns the body as stored now
FetchRaw(c) ==
    /\ cl[c].pc = "raw"
    /\ LET result == RawResult(cl[c].fileData, store.doc)
           l == [DeleteField(cl[c], "fileData") EXCEPT !.pc = "fetch"]
       IN  /\ cl' = [cl EXCEPT ![c] = AfterFetch(l, result, clock + 1)]
           /\ log' = [log EXCEPT ![c] = Append(@, [ev |-> "fetch", sha |-> result.sha,
                                                  resp |-> "ok",
                                                  cycle |-> cl[c].retryCount,
                                                  at |-> store.sha])]
           /\ hist' = [hist EXCEPT ![c].fetched = result.items,
                                   ![c].fetchedSha = result.sha,
                                   ![c].index = FindIndex(result.items, cl[c].itemHash),
                                   ![c].now = clock + 1]
    /\ clock' = clock + 1
    /\ UNCHANGED <<store, faults>>

NextRaw ==
    \E c \in Clients : Begin(c) \/ FetchOk(c) \/ FetchMeta(c) \/ FetchRaw(c) \/ Put(c)

SpecRaw == InitCAS /\ [][NextRaw]_vars

(***************************************************************************)
(* A conflict storm: some other writer's commit always lands between the   *)
(* session's read and its PUT, so every PUT is rejected as a conflict.     *)
(***************************************************************************)
InitStorm ==
    /\ InitCommon
    /\ store = [sha |-> 1, doc |-> Doc0]
    /\ cl \in {[c \in Clients |-> IF c = "c1" THEN r ELSE Off] : r \in RaceRequests("c1")}
    /\ faults = 0

\* one PUT of the loop, overtaken by another commit and rejected
PutOvertaken(c) ==
    /\ cl[c].pc = "write"
    /\ \E r \in ConflictSignals :
        LET req == WriteRequest(cl[c])
        IN  /\ store' = [store EXCEPT !.sha = @ + 1]
            /\ cl' = [cl EXCEPT ![c] = AfterResponse(@, r)]
            /\ log' = [log EXCEPT ![c] = Append(@, [ev |-> "put", sha |-> req.sha,
                                                   resp |-> r,
                                                   cycle |-> cl[c].retryCount])]
            /\ hist' = [hist EXCEPT ![c].body = req.content]
    /\ UNCHANGED <<clock, faults>>

NextStorm == \E c \in Clients : Begin(c) \/ FetchOk(c) \/ PutOvertaken(c)

SpecStorm == InitStorm /\ [][NextStorm]_vars

(***************************************************************************)
(* An unrestricted environment: any request may throw or be answered with  *)
(* any status, as often as the environment likes.  The history kept here   *)
(* is a tally (hist) instead of the request log, which stays empty.        *)
(***************************************************************************)
AuthSignals == {"401", "403"}

\* every way the store may say that the sha precondition did not hold
PreconditionSignals == ConflictSignals \cup {"412"}

FetchOutcomes == {"ok", "401", "403", "500", "neterr"}

LiveAnswers(req) ==
    (IF req.sha = store.sha THEN {"ok"} ELSE {})
    \cup PreconditionSignals \cup AuthSignals \cup {"500", "neterr"}

LiveHist ==
    [fetchesInCycle |-> 0, putsInCycle |-> 0, conflictRetries |-> 0,
     lastKind |-> "none", lastResp |-> "none", lastRetryCount |-> 0,
     acked |-> FALSE, sentAfterAuth |-> FALSE]

\* the tally after a request of kind `kind` was answered r; l, l2 are the
\* locals before and after the reaction
Tally(h, kind, r, l, l2) ==
    LET newCycle == l2.retryCount # l.retryCount
    IN  [fetchesInCycle |-> IF newCycle THEN 0
                            ELSE h.fetchesInCycle + (IF kind = "fetch" THEN 1 ELSE 0),
         putsInCycle |-> IF newCycle THEN 0
                         ELSE h.putsInCycle + (IF kind = "put" THEN 1 ELSE 0),
         conflictRetries |-> h.conflictRetries + (IF newCycle THEN 1 ELSE 0),
         lastKind |-> kind, lastResp |-> r, lastRetryCount |-> l.retryCount,
         acked |-> h.acked \/ (kind = "put" /\ r = "ok"),
         sentAfterAuth |-> h.sentAfterAuth \/ h.lastResp \in AuthSignals]

InitLive ==
    /\ clock = 0
    /\ log = [c \in Clients |-> <<>>]
    /\ hist = [c \in Clients |-> LiveHist]
    /\ store = [sha |-> 1, doc |-> Doc0]
    /\ cl \in {[c \in Clients |-> IF c = "c1" THEN r ELSE Off] : r \in RaceRequests("c1")}
    /\ faults = 0

\* one call of fetchProjectsJsonWithSha, with any outcome
LiveFetch(c) ==
    /\ cl[c].pc = "fetch"
    /\ \E o \in FetchOutcomes :
        LET result == [sha |-> store.sha, items |-> store.doc]
            l2 == IF o = "ok" THEN AfterFetch(cl[c], result, clock + 1)
                  ELSE AfterFetchError(cl[c])
        IN  /\ cl' = [cl EXCEPT ![c] = l2]
            /\ clock' = IF o = "ok" THEN clock + 1 ELSE clock
            /\ hist' = [hist EXCEPT ![c] = Tally(@, "fetch", o, cl[c], l2)]
    /\ UNCHANGED <<store, faults, log>>

\* one PUT of the loop, with any answer; a rejected precondition on a
\* current sha means that another commit landed first
LivePut(c) ==
    /\ cl[c].pc = "write"
    /\ \E r \in LiveAnswers(WriteRequest(cl[c])) :
        LET req == WriteRequest(cl[c])
            l2 == AfterResponse(cl[c], r)
        IN  /\ store' = IF r = "ok"
                        THEN [sha |-> store.sha + 1, doc |-> req.content]
                        ELSE IF r \in PreconditionSignals /\ req.sha = store.sha
                        THEN [store EXCEPT !.sha = @ + 1]
                        ELSE store
            /\ cl' = [cl EXCEPT ![c] = l2]
            /\ hist' = [hist EXCEPT ![c] = Tally(@, "put", r, cl[c], l2)]
    /\ UNCHANGED <<clock, faults, log>>

NextLive == \E c \in Clients : Begin(c) \/ LiveFetch(c) \/ LivePut(c)

\* every request settles and every timer fires: a started operation keeps going
SpecLive == InitLive /\ [][NextLive]_vars /\ WF_vars(NextLive)

(***************************************************************************)
(* EditModal.save(): the form is saved with updateSingleProject, then the  *)
(* stored file is read once more to verify the save, and the outcome is    *)
(* shown in the progress text and in an alert.  Session c1 is the editor;  *)
(* c2 is another session that may write at any time.                       *)
(***************************************************************************)
Saver == "c1"

\* a title with a non-ASCII character, and what a decode that takes each
\* UTF-8 byte for a character makes of it
TitleUtf8 == "t-utf8"
TitleMisread == "t-misread"

\* JSON.parse(atob(content)): the bytes of the text are taken for characters
PlainAtobText(text) == IF text = TitleUtf8 THEN TitleMisread ELSE text

\* const updates = { title, description }; media; backgroundImage when the item has one
SaveUpdates(currentItem, title, description) ==
    LET u == [title |-> title, description |-> description,
              media |-> currentItem["media"]]
    IN  IF HasOwn(currentItem, "backgroundImage")
        THEN SetField(u, "backgroundImage", currentItem["backgroundImage"])
        ELSE u

\* the form holds the values of the item the modal was opened on until the
\* user types over them
FormTitles(currentItem) == {currentItem["title"], "t1", TitleUtf8}
FormDescriptions(currentItem) == {currentItem["description"], "d1"}

SaveRequests ==
    UNION {{Idle("update", Doc0[i]["hash"], SaveUpdates(Doc0[i], t, d)) :
              t \in FormTitles(Doc0[i]), d \in FormDescriptions(Doc0[i])} :
           i \in DOMAIN Doc0}

\* what the verification request may come back with
VerifyShapes ==
    {"throws", "http_error", "json_throws", "json_null", "no_content",
     "empty_content", "not_array", "document"}

\* progress text and alert after the verification read of shape `shape`
\* when the store holds `items`
VerifyOutcome(l, shape, items) ==
    LET pending == [progressText |-> "Saved (verification pending)", alert |-> "none"]
        untouched == [progressText |-> "Verifying save...", alert |-> "none"]
        itemIndex == FindIndex(items, l.itemHash)
    IN  CASE shape = "throws" -> pending
          [] shape \in {"http_error", "json_throws", "json_null"} -> untouched
          [] shape \in {"no_content", "empty_content", "not_array"} -> pending
          [] OTHER ->
                IF itemIndex = 0
                THEN [progressText |-> "Save may have failed - item not found",
                      alert |-> "none"]
                ELSE IF /\ PlainAtobText(items[itemIndex]["title"]) = l.updates["title"]
                        /\ PlainAtobText(items[itemIndex]["description"])
                               = l.updates["description"]
                THEN [progressText |-> "Success! Changes saved to GitHub.",
                      alert |-> "Changes saved successfully!"]
                ELSE pending

\* the locals of save() when it ends
Ended(l, resolved, shown) ==
    [f \in DOMAIN l \cup {"resolved", "progressText", "alert"} |->
        CASE f = "pc" -> "ended"
          [] f = "resolved" -> resolved
          [] f = "progressText" -> shown.progressText
          [] f = "alert" -> shown.alert
          [] OTHER -> l[f]]

InitSave ==
    /\ InitCommon
    /\ store = [sha |-> 1, doc |-> Doc0]
    /\ cl \in {[c \in Clients |-> IF c = Saver THEN r ELSE q] :
                 r \in SaveRequests, q \in RaceRequests("c2") \cup {Off}}
    /\ faults = 0

\* updateSingleProject resolved: wait, read the file again, show the outcome
VerifySave ==
    /\ cl[Saver].pc = "done"
    /\ \E shape \in VerifyShapes :
        cl' = [cl EXCEPT ![Saver] = Ended(@, TRUE, VerifyOutcome(@, shape, store.doc))]
    /\ UNCHANGED <<store, clock, faults, log, hist>>

\* updateSingleProject rejected: the outer catch of save()
SaveFailed ==
    /\ cl[Saver].pc = "failed"
    /\ cl' = [cl EXCEPT ![Saver] =
                Ended(@, FALSE, [progressText |-> "Error", alert |-> "Failed to save changes"])]
    /\ UNCHANGED <<store, clock, faults, log, hist>>

NextSave ==
    \/ \E c \in Clients : Begin(c) \/ FetchOk(c) \/ Put(c)
    \/ VerifySave
    \/ SaveFailed

SpecSave == InitSave /\ [][NextSave]_vars

(***************************************************************************)
(* The bytes of the stored file and how they travel.  Bytes are numbers    *)
(* 0..255; base64 text is a sequence of digits 0..63, the pad sign and     *)
(* line breaks; text is a sequence of code points.                         *)
(***************************************************************************)
Pad == 64
Ws == 65
Replacement == 65533
ByteOrderMark == 65279

\* base64 of a byte sequence, as the contents API produces it
RECURSIVE Base64(_)
Base64(b) ==
    IF Len(b) = 0 THEN <<>>
    ELSE IF Len(b) = 1
    THEN <<b[1] \div 4, (b[1] % 4) * 16, Pad, Pad>>
    ELSE IF Len(b) = 2
    THEN <<b[1] \div 4, (b[1] % 4) * 16 + b[2] \div 16, (b[2] % 16) * 4, Pad>>
    ELSE <<b[1] \div 4, (b[1] % 4) * 16 + b[2] \div 16,
           (b[2] % 16) * 4 + b[3] \div 64, b[3] % 64>>
         \o Base64(SubSeq(b, 4, Len(b)))

\* the same text broken into lines, with a line break at the end
RECURSIVE Wrapped(_)
Wrapped(t) ==
    IF Len(t) <= 4 THEN t \o <<Ws>>
    ELSE SubSeq(t, 1, 4) \o <<Ws>> \o Wrapped(SubSeq(t, 5, Len(t)))

IsWs(x) == x = Ws
NotWs(x) == x # Ws

\* content.trim() !== ''
TrimIsEmpty(t) == \A i \in DOMAIN t : IsWs(t[i])

\* the digits of a base64 text: white space removed, trailing padding removed
Digits(t) ==
    LET s == SelectSeq(t, NotWs)
        n == Len(s)
    IN  IF n % 4 = 0 /\ n >= 2 /\ s[n] = Pad /\ s[n - 1] = Pad THEN SubSeq(s, 1, n - 2)
        ELSE IF n % 4 = 0 /\ n >= 1 /\ s[n] = Pad THEN SubSeq(s, 1, n - 1)
        ELSE s

RECURSIVE BytesOfDigits(_)
BytesOfDigits(d) ==
    IF Len(d) < 2 THEN <<>>
    ELSE IF Len(d) = 2
    THEN <<d[1] * 4 + d[2] \div 16>>
    ELSE IF Len(d) = 3
    THEN <<d[1] * 4 + d[2] \div 16, (d[2] % 16) * 16 + d[3] \div 4>>
    ELSE <<d[1] * 4 + d[2] \div 16, (d[2] % 16) * 16 + d[3] \div 4,
           (d[3] % 4) * 64 + d[4]>>
         \o BytesOfDigits(SubSeq(d, 5, Len(d)))

\* atob(content): throws on a stray pad sign or an impossible length
Atob(t) ==
    LET d == Digits(t)
    IN  IF Len(d) % 4 = 1 \/ \E i \in DOMAIN d : d[i] = Pad
        THEN [ok |-> FALSE, bytes |-> <<>>]
        ELSE [ok |-> TRUE, bytes |-> BytesOfDigits(d)]

IsContinuation(x) == x >= 128 /\ x <= 191

\* the second byte a lead byte of three or four allows
SecondByteFits(lead, x) ==
    IF lead = 224 THEN x >= 160 /\ x <= 191
    ELSE IF lead = 237 THEN x >= 128 /\ x <= 159
    ELSE IF lead = 240 THEN x >= 144 /\ x <= 191
    ELSE IF lead = 244 THEN x >= 128 /\ x <= 143
    ELSE IsContinuation(x)

RECURSIVE Utf8Points(_)
Utf8Points(b) ==
    IF Len(b) = 0 THEN <<>>
    ELSE IF b[1] < 128
    THEN <<b[1]>> \o Utf8Points(Tail(b))
    ELSE IF b[1] >= 194 /\ b[1] <= 223 /\ Len(b) >= 2 /\ IsContinuation(b[2])
    THEN <<(b[1] - 192) * 64 + (b[2] - 128)>> \o Utf8Points(SubSeq(b, 3, Len(b)))
    ELSE IF /\ b[1] >= 224 /\ b[1] <= 239 /\ Len(b) >= 3
            /\ SecondByteFits(b[1], b[2]) /\ IsContinuation(b[3])
    THEN <<(b[1] - 224) * 4096 + (b[2] - 128) * 64 + (b[3] - 128)>>
         \o Utf8Points(SubSeq(b, 4, Len(b)))
    ELSE IF /\ b[1] >= 240 /\ b[1] <= 244 /\ Len(b) >= 4
            /\ SecondByteFits(b[1], b[2]) /\ IsContinuation(b[3]) /\ IsContinuation(b[4])
    THEN <<(b[1] - 240) * 262144 + (b[2] - 128) * 4096 + (b[3] - 128) * 64
           + (b[4] - 128)>>
         \o Utf8Points(SubSeq(b, 5, Len(b)))
    ELSE <<Replacement>> \o Utf8Points(Tail(b))

\* new TextDecoder().decode(bytes), and Response.text(): UTF-8, byte order
\* mark dropped, malformed bytes replaced
Utf8Decode(b) ==
    LET p == Utf8Points(b)
    IN  IF Len(p) > 0 /\ p[1] = ByteOrderMark THEN Tail(p) ELSE p

(***************************************************************************)
(* fetchProjectsJsonWithSha in detail.  JSON is cut down to what the       *)
(* function looks at: an array whose elements are records, each written    *)
(* as one character, or an object that may have a download_url or a        *)
(* message.  In this part `store` holds the file as bytes and cl[c] the    *)
(* locals of one call.                                                     *)
(***************************************************************************)
RecE == [hash |-> "e", title |-> TitleUtf8, description |-> "de",
         media |-> <<>>, source |-> "se"]

\* the characters that stand for records: a, b and e-acute
RecordChars == {97, 98, 233}

RecordOfChar(p) == IF p = 97 THEN RecA ELSE IF p = 98 THEN RecB ELSE RecE

IsJsonSpace(p) == p \in {32, 10}
NotJsonSpace(p) == ~IsJsonSpace(p)

\* JSON.parse(text)
JsonParse(text) ==
    LET t == SelectSeq(text, NotJsonSpace)
        n == Len(t)
        inner == SubSeq(t, 2, n - 1)
        m == Len(inner)
    IN  IF n >= 2 /\ t[1] = 91 /\ t[n] = 93
        THEN IF m = 0
             THEN [kind |-> "array", items |-> <<>>]
             ELSE IF /\ m % 2 = 1
                     /\ \A i \in 1..m : IF i % 2 = 1 THEN inner[i] \in RecordChars
                                        ELSE inner[i] = 44
             THEN [kind |-> "array",
                   items |-> [i \in 1..((m + 1) \div 2) |-> RecordOfChar(inner[2 * i - 1])]]
             ELSE [kind |-> "invalid"]
        ELSE IF t = <<123, 125>> THEN [kind |-> "object", has |-> "nothing"]
        ELSE IF t = <<123, 100, 125>> THEN [kind |-> "object", has |-> "download_url"]
        ELSE IF t = <<123, 109, 125>> THEN [kind |-> "object", has |-> "message"]
        ELSE [kind |-> "invalid"]

\* files the store may hold: [], [a], [a,b], [e'], [a, e'], {}, {m}, {d},
\* the empty file, a cut-off array, [b] behind a byte order mark, and an
\* array with a malformed byte
Files ==
    {<<91, 93>>, <<91, 97, 93>>, <<91, 97, 44, 98, 93>>, <<91, 195, 169, 93>>,
     <<91, 97, 44, 32, 195, 169, 93>>, <<123, 125>>, <<123, 109, 125>>,
     <<123, 100, 125>>, <<>>, <<91, 97>>, <<239, 187, 191, 91, 98, 93>>,
     <<91, 233, 93>>}

NoFileData == [ok |-> FALSE, sha |-> NoSha, encoding |-> "none", content |-> <<>>]

\* the metadata responses the contents API may give for a file
MetaAnswers(st) ==
    {[ok |-> TRUE, sha |-> st.sha, encoding |-> "none", content |-> <<>>],
     [ok |-> FALSE, sha |-> NoSha, encoding |-> "none", content |-> <<>>]}
    \cup {[ok |-> TRUE, sha |-> st.sha, encoding |-> "base64", content |-> t] :
            t \in IF st.file = <<>> THEN {<<>>, <<Ws>>}
                  ELSE {Base64(st.file), Wrapped(Base64(st.file))}}

\* the text of the metadata object, when it comes back in place of the body
MetaObjectText == <<123, 100, 125>>

FetchStart ==
    [pc |-> "meta", fileData |-> NoFileData, usedRaw |-> FALSE,
     jsonString |-> <<>>, items |-> <<>>, error |-> "none"]

Threw(l, e) == [l EXCEPT !.pc = "threw", !.error = e]

\* fileData.encoding === 'base64' && fileData.content && fileData.content.trim() !== ''
InlinePayload(fileData) ==
    /\ fileData.encoding = "base64"
    /\ fileData.content # <<>>
    /\ ~TrimIsEmpty(fileData.content)

\* (mutant) the bytes that atob yields are taken for the characters
DecodeInlineLatin1(content) == Atob(content).bytes

\* atob, Uint8Array.from(..., charCodeAt), TextDecoder.decode
DecodeInline(content) == Utf8Decode(Atob(content).bytes)

\* (mutant) Array.isArray is not asked: an object without download_url and
\* without message is returned as it is
AfterBodyAcceptsObjects(l, jsonString) ==
    LET v == JsonParse(jsonString)
        got == [l EXCEPT !.jsonString = jsonString]
    IN  IF v.kind = "array"
        THEN [got EXCEPT !.pc = "returned", !.items = v.items]
        ELSE IF v.kind = "invalid"
        THEN Threw(got, "NotJson")
        ELSE IF v.has = "download_url"
        THEN [got EXCEPT !.pc = "download"]
        ELSE IF v.has = "message"
        THEN Threw(got, "Message")
        ELSE [got EXCEPT !.pc = "returned"]

\* parseJsonArrayOrThrow and the fallback around it
AfterBody(l, jsonString) ==
    LET v == JsonParse(jsonString)
        got == [l EXCEPT !.jsonString = jsonString]
    IN  IF v.kind = "array"
        THEN [got EXCEPT !.pc = "returned", !.items = v.items]
        ELSE IF v.kind = "invalid"
        THEN Threw(got, "NotJson")
        ELSE IF v.has = "download_url"
        THEN [got EXCEPT !.pc = "download"]
        ELSE IF v.has = "message"
        THEN Threw(got, "Message")
        ELSE Threw(got, "NotArray")

\* parseJsonArrayOrThrow(dlText, 'download_url read')
AfterDownload(l, dlText) ==
    LET v == JsonParse(dlText)
    IN  IF v.kind = "array"
        THEN [l EXCEPT !.pc = "returned", !.items = v.items, !.usedRaw = TRUE]
        ELSE IF v.kind = "invalid"
        THEN Threw(l, "NotJson")
        ELSE Threw(l, "NotArray")

InitFetch ==
    /\ InitCommon
    /\ store \in {[sha |-> 1, file |-> f] : f \in Files}
    /\ cl = [c \in Clients |-> FetchStart]
    /\ faults = 0

\* the metadata request and, with an inline payload, the decode and parse
FetchMetadata(c) ==
    /\ cl[c].pc = "meta"
    /\ \E fd \in MetaAnswers(store) :
        LET l == [cl[c] EXCEPT !.fileData = fd]
        IN  cl' = [cl EXCEPT ![c] =
                     IF ~fd.ok THEN Threw(cl[c], "Http")
                     ELSE IF InlinePayload(fd)
                     THEN IF Atob(fd.content).ok
                          THEN AfterBody(l, DecodeInline(fd.content))
                          ELSE Threw(l, "Atob")
                     ELSE [l EXCEPT !.pc = "raw", !.usedRaw = TRUE]]
    /\ UNCHANGED <<store, clock, faults, log, hist>>

\* the raw request
FetchRawBody(c) ==
    /\ cl[c].pc = "raw"
    /\ \E a \in {"body", "metadata", "error"} :
        cl' = [cl EXCEPT ![c] =
                 IF a = "error" THEN Threw(@, "Http")
                 ELSE IF a = "metadata" THEN AfterBody(@, MetaObjectText)
                 ELSE AfterBody(@, Utf8Decode(store.file))]
    /\ UNCHANGED <<store, clock, faults, log, hist>>

\* the request to download_url
FetchDownloadUrl(c) ==
    /\ cl[c].pc = "download"
    /\ \E a \in {"body", "error"} :
        cl' = [cl EXCEPT ![c] =
                 IF a = "error" THEN Threw(@, "Http")
                 ELSE AfterDownload(@, Utf8Decode(store.file))]
    /\ UNCHANGED <<store, clock, faults, log, hist>>

NextFetch ==
    \E c \in Clients : FetchMetadata(c) \/ FetchRawBody(c) \/ FetchDownloadUrl(c)

SpecFetch == InitFetch /\ [][NextFetch]_vars

(***************************************************************************)
(* The way back: the text of the document is encoded and put, then read    *)
(* and decoded again.  In this part `store` holds the file as bytes,       *)
(* cl[c] the text a session has in hand, and `hist` one entry for every    *)
(* version of the file: the text its writer encoded, the text at the       *)
(* start of the chain of rewrites, and the number of rewrites since.       *)
(***************************************************************************)
MaxTextLen == 2     \* characters between the brackets of a text
MaxTrips == 2       \* writes per run

\* a, e-acute, the euro sign, an emoji and the zero-width no-break space
CodecChars == {97, 233, 8364, 128512, 65279}

\* what JSON.stringify of an array gives: brackets around the rest
Texts ==
    {<<91>> \o s \o <<93>> :
        s \in UNION {[1..n -> CodecChars] : n \in 0..MaxTextLen}}

\* (mutant) the code units are taken for the bytes
TextEncodeCodeUnits(text) == [i \in DOMAIN text |-> text[i] % 256]

\* new TextEncoder().encode(text)
RECURSIVE TextEncode(_)
TextEncode(text) ==
    IF Len(text) = 0 THEN <<>>
    ELSE LET p == text[1]
         IN  (IF p < 128 THEN <<p>>
              ELSE IF p < 2048 THEN <<192 + (p \div 64), 128 + (p % 64)>>
              ELSE IF p >= 55296 /\ p <= 57343 THEN <<239, 191, 189>>
              ELSE IF p < 65536
              THEN <<224 + (p \div 4096), 128 + ((p \div 64) % 64), 128 + (p % 64)>>
              ELSE <<240 + (p \div 262144), 128 + ((p \div 4096) % 64),
                     128 + ((p \div 64) % 64), 128 + (p % 64)>>)
             \o TextEncode(Tail(text))

\* Array.from(utf8Bytes, byte => String.fromCharCode(byte)).join('')
BinaryStringEncoded(utf8Bytes) == [i \in DOMAIN utf8Bytes |-> utf8Bytes[i] % 65536]

\* btoa(s): throws on a character above 255
Btoa(s) ==
    IF \E i \in DOMAIN s : s[i] > 255
    THEN [ok |-> FALSE, text |-> <<>>]
    ELSE [ok |-> TRUE, text |-> Base64(s)]

\* TextEncoder, String.fromCharCode, btoa
EncodeContent(text) == Btoa(BinaryStringEncoded(TextEncode(text)))

\* the file the store keeps for the content of an accepted PUT
StoredFile(content) == Atob(content).bytes

CodecIdle == [pc |-> "idle", text |-> <<>>, sha |-> NoSha, site |-> "none"]

InHand(l, site, text, sha) ==
    [l EXCEPT !.pc = "have", !.site = site, !.text = text, !.sha = sha]

InitCodec ==
    /\ \E t \in Texts :
        /\ store = [sha |-> 1, file |-> TextEncode(t)]
        /\ hist = <<[text |-> t, origin |-> t, trips |-> 0]>>
    /\ cl = [c \in Clients |-> CodecIdle]
    /\ clock = 0
    /\ faults = 0
    /\ log = [c \in Clients |-> <<>>]

\* fetchProjectsJsonWithSha up to the text: inline payload or raw body
CodecFetch(c) ==
    /\ cl[c].pc = "idle"
    /\ \E fd \in MetaAnswers(store) :
        /\ fd.ok
        /\ cl' = [cl EXCEPT ![c] =
                    IF InlinePayload(fd)
                    THEN InHand(@, "fetch", DecodeInline(fd.content), fd.sha)
                    ELSE InHand(@, "fetch", Utf8Decode(store.file), fd.sha)]
    /\ UNCHANGED <<store, clock, faults, log, hist>>

\* the PUT of a content: accepted when the sha is the stored one
PutContent(c, content) ==
    /\ Len(hist) <= MaxTrips
    /\ IF content.ok /\ cl[c].sha = store.sha
       THEN /\ store' = [sha |-> store.sha + 1, file |-> StoredFile(content.text)]
            /\ hist' = Append(hist, [text |-> cl[c].text,
                                     origin |-> hist[cl[c].sha].origin,
                                     trips |-> hist[cl[c].sha].trips + 1])
       ELSE UNCHANGED <<store, hist>>
    /\ cl' = [cl EXCEPT ![c] = [@ EXCEPT !.pc = "idle"]]
    /\ UNCHANGED <<clock, faults, log>>

\* the encode and the PUT of updateSingleProject and deleteSingleProject
CodecPut(c) ==
    /\ cl[c].pc = "have"
    /\ cl[c].site = "fetch"
    /\ PutContent(c, EncodeContent(cl[c].text))

NextCodec == \E c \in Clients : CodecFetch(c) \/ CodecPut(c)

SpecCodec == InitCodec /\ [][NextCodec]_vars

(***************************************************************************)
(* The other readers of the stored document: the verification read of      *)
(* EditModal.save() and updateSingleProject of docs/github-api.js.         *)
(***************************************************************************)
\* atob(content) used as the text: one character for every byte
BinaryString(content) == Atob(content).bytes

\* btoa(unescape(encodeURIComponent(jsonString))): encodeURIComponent throws
\* on a lone surrogate, otherwise the characters are the UTF-8 bytes
LegacyContent(jsonString) ==
    IF \E i \in DOMAIN jsonString : jsonString[i] >= 55296 /\ jsonString[i] <= 57343
    THEN [ok |-> FALSE, text |-> <<>>]
    ELSE Btoa(TextEncode(jsonString))

\* JSON.parse(atob(verifyData.content)) in EditModal.save()
VerifyRead(c) ==
    /\ cl[c].pc \in {"idle", "verified"}
    /\ \E fd \in MetaAnswers(store) :
        /\ fd.ok
        /\ InlinePayload(fd)
        /\ Atob(fd.content).ok
        /\ cl' = [cl EXCEPT ![c] =
                    [InHand(@, "verify", BinaryString(fd.content), fd.sha)
                        EXCEPT !.pc = "verified"]]
    /\ UNCHANGED <<store, clock, faults, log, hist>>

\* the end of save(): the modal is left
VerifyDone(c) ==
    /\ cl[c].pc = "verified"
    /\ cl' = [cl EXCEPT ![c] = CodecIdle]
    /\ UNCHANGED <<store, clock, faults, log, hist>>

\* JSON.parse(atob(fileData.content)) in updateSingleProject of docs/github-api.js
LegacyRead(c) ==
    /\ cl[c].pc = "idle"
    /\ \E fd \in MetaAnswers(store) :
        /\ fd.ok
        /\ InlinePayload(fd)
        /\ Atob(fd.content).ok
        /\ cl' = [cl EXCEPT ![c] =
                    InHand(@, "legacy", BinaryString(fd.content), fd.sha)]
    /\ UNCHANGED <<store, clock, faults, log, hist>>

\* its encode and PUT
LegacyPut(c) ==
    /\ cl[c].pc = "have"
    /\ cl[c].site = "legacy"
    /\ PutContent(c, LegacyContent(cl[c].text))

NextDecoders ==
    \E c \in Clients :
        \/ CodecFetch(c) \/ CodecPut(c)
        \/ VerifyRead(c) \/ VerifyDone(c)
        \/ LegacyRead(c) \/ LegacyPut(c)

SpecDecoders == InitCodec /\ [][NextDecoders]_vars

(***************************************************************************)
(* The credential.  In this part `store` is the sessionStorage of the tab, *)
(* cl[Saver] the GitHubAPI object and the section the modal shows, `clock` *)
(* the time in minutes, and `hist` remembers the last successful           *)
(* authenticate() and the last token getToken() gave out.                  *)
(***************************************************************************)
MaxClock == 17          \* minutes a run lasts
AuthTimeout == 15       \* 15 * 60 * 1000 ms
NoTime == 0 - 1         \* sessionStorage.getItem('auth_time') === null

Passwords == {"pat", "bad"}

NoSession == [edit_auth |-> Null, auth_time |-> NoTime]

\* a fresh page: new GitHubAPI(), modal closed
FreshPage == [token |-> Null, password |-> Null, section |-> "closed"]

\* logout(): storage cleared, password and token forgotten
LoggedOut(api) == [api EXCEPT !.token = Null, !.password = Null]

\* isAuthenticated() at time `now`
IsAuthenticated(st, now) ==
    /\ st.edit_auth # Null
    /\ st.auth_time # NoTime
    /\ ~(now - st.auth_time > AuthTimeout)

\* isAuthenticated() logs out when the time is up
Expires(st, now) ==
    /\ st.edit_auth # Null
    /\ st.auth_time # NoTime
    /\ now - st.auth_time > AuthTimeout

\* getToken(): the token in memory, else the one in the storage, else a throw
GetToken(api, st) ==
    IF api.token # Null THEN api.token
    ELSE IF st.edit_auth # Null THEN st.edit_auth
    ELSE Null

InitAuth ==
    /\ store = NoSession
    /\ cl = [c \in Clients |-> IF c = Saver THEN FreshPage ELSE Off]
    /\ clock = 0
    /\ faults = 0
    /\ log = [c \in Clients |-> <<>>]
    /\ hist = [authAt |-> NoTime, issued |-> Null, issuedAt |-> NoTime]

Tick ==
    /\ clock < MaxClock
    /\ clock' = clock + 1
    /\ UNCHANGED <<store, cl, faults, log, hist>>

\* EditModal.open(): the edit section when isAuthenticated(), else the form
OpenModal ==
    /\ cl[Saver].section = "closed"
    /\ IF IsAuthenticated(store, clock)
       THEN /\ cl' = [cl EXCEPT ![Saver].section = "edit"]
            /\ store' = store
       ELSE /\ cl' = [cl EXCEPT ![Saver] =
                        [(IF Expires(store, clock) THEN LoggedOut(@) ELSE @)
                            EXCEPT !.section = "auth"]]
            /\ store' = IF Expires(store, clock) THEN NoSession ELSE store
    /\ UNCHANGED <<clock, faults, log, hist>>

\* authenticate(password): the token is kept at once, the storage is written
\* when GitHub accepts it
Authenticate ==
    /\ cl[Saver].section = "auth"
    /\ \E password \in Passwords : \E accepted \in BOOLEAN :
        /\ accepted => password = "pat"
        /\ IF accepted
           THEN /\ cl' = [cl EXCEPT ![Saver] =
                            [token |-> password, password |-> password,
                             section |-> "edit"]]
                /\ store' = [edit_auth |-> password, auth_time |-> clock]
                /\ hist' = [hist EXCEPT !.authAt = clock]
           ELSE /\ cl' = [cl EXCEPT ![Saver].token = password]
                /\ UNCHANGED <<store, hist>>
    /\ UNCHANGED <<clock, faults, log>>

CloseModal ==
    /\ cl[Saver].section # "closed"
    /\ cl' = [cl EXCEPT ![Saver].section = "closed"]
    /\ UNCHANGED <<store, clock, faults, log, hist>>

\* the logout button of the edit section
LogoutButton ==
    /\ cl[Saver].section = "edit"
    /\ cl' = [cl EXCEPT ![Saver] = [LoggedOut(@) EXCEPT !.section = "closed"]]
    /\ store' = NoSession
    /\ UNCHANGED <<clock, faults, log, hist>>

\* the page is loaded again in the same tab
ReloadPage ==
    /\ cl' = [cl EXCEPT ![Saver] = FreshPage]
    /\ cl'[Saver] # cl[Saver]
    /\ UNCHANGED <<store, clock, faults, log, hist>>

\* save, delete or upload from the edit section: the operation asks getToken()
UseToken ==
    /\ cl[Saver].section = "edit"
    /\ cl' = [cl EXCEPT ![Saver].token = GetToken(cl[Saver], store)]
    /\ hist' = [hist EXCEPT !.issued = GetToken(cl[Saver], store),
                            !.issuedAt = clock]
    /\ UNCHANGED <<store, clock, faults, log>>

NextAuth ==
    \/ Tick
    \/ OpenModal
    \/ Authenticate
    \/ CloseModal
    \/ LogoutButton
    \/ ReloadPage
    \/ UseToken

SpecAuth == InitAuth /\ [][NextAuth]_vars

\* the same page, with the calls of authenticate() that have not returned yet
\* and a note of the passwords GitHub accepted
InitSignIn ==
    /\ store = NoSession
    /\ cl = [c \in Clients |->
                IF c = Saver THEN SetField(FreshPage, "calls", {}) ELSE Off]
    /\ clock = 0
    /\ faults = 0
    /\ log = [c \in Clients |-> <<>>]
    /\ hist = [authAt |-> NoTime, issued |-> Null, issuedAt |-> NoTime,
               accepted |-> {}, rejected |-> {}]

\* the button of the form, or Enter in its field: authenticate(password) up
\* to its first await; the token is kept at once
StartAuthenticate ==
    /\ cl[Saver].section = "auth"
    /\ \E password \in Passwords :
        cl' = [cl EXCEPT ![Saver] =
                  [@ EXCEPT !.token = password, !["calls"] = @ \cup {password}]]
    /\ UNCHANGED <<store, clock, faults, log, hist>>

\* a call of authenticate() returns: true with the storage written and the
\* edit section shown, or false with nothing else done
SettleAuthenticate ==
    /\ \E password \in cl[Saver]["calls"] : \E accepted \in BOOLEAN :
        /\ accepted => password = "pat"
        /\ IF accepted
           THEN /\ cl' = [cl EXCEPT ![Saver] =
                            [@ EXCEPT !.password = password,
                                      !.section = IF @ = "closed" THEN @ ELSE "edit",
                                      !["calls"] = @ \ {password}]]
                /\ store' = [edit_auth |-> password, auth_time |-> clock]
                /\ hist' = [hist EXCEPT !.authAt = clock,
                                        !.accepted = @ \cup {password}]
           ELSE /\ cl' = [cl EXCEPT ![Saver]["calls"] = @ \ {password}]
                /\ store' = store
                /\ hist' = [hist EXCEPT !.rejected = @ \cup {password}]
    /\ UNCHANGED <<clock, faults, log>>

NextSignIn ==
    \/ Tick
    \/ OpenModal
    \/ StartAuthenticate
    \/ SettleAuthenticate
    \/ CloseModal
    \/ LogoutButton
    \/ UseToken

SpecSignIn == InitSignIn /\ [][NextSignIn]_vars

(***************************************************************************)
(* The modal of the editor.  In this part `store` holds the document with  *)
(* the one record the modal is opened on, cl[Saver] holds the fields of    *)
(* the EditModal object and the locals of the save() or delete() in        *)
(* flight, and `hist` the item of the page the modal was opened on, the     *)
(* size of the last batch handleFiles() let through its filter and, in     *)
(* the parts that need them, notes on the session.  A checkbox is named    *)
(* by its list and its position.  List positions count from 1; position    *)
(* 0 stands for null.                                                      *)
(***************************************************************************)
maxFiles == 4       \* this.maxFiles = 4
MaxBatch == 2       \* files dropped at once

\* files the user may drop: an image, and one the filter refuses
FileNames == {"f1", "fbad"}

\* the filter of handleFiles: type and size
IsValidFile(file) == file # "fbad"

\* mediaData.url of an uploaded file
UrlOf(file) == IF file = "f1" THEN "n1" ELSE IF file = "f2" THEN "n2" ELSE "nbad"

\* entries that are shown with a background checkbox
IsImage(x) == x \in {"u1", "u2", "f1"}

ModalMedia == <<"u1", "u2", "u3", "u4">>

\* items with no media and no background, or with media and its first entry
\* as the background
OpenedItems ==
    {[hash |-> "a", title |-> "ta", description |-> "da",
      media |-> <<>>, source |-> "sa"]}
    \cup {[hash |-> "a", title |-> "ta", description |-> "da",
           media |-> SubSeq(ModalMedia, 1, n), backgroundImage |-> "u1",
           source |-> "sa"] : n \in 1..maxFiles}

Batches == UNION {[1..n -> FileNames] : n \in 1..MaxBatch}

\* (mutant) this.currentItem = item
SharedByReference == TRUE

\* this.currentItem = JSON.parse(JSON.stringify(item)): an object of its own,
\* which shares nothing with the item of the page
Shared == FALSE

\* the item of the page after the modal has written into this.currentItem
ItemOfPage(item, m) == IF m.shared THEN m.currentItem ELSE item

\* renderMediaPreview(): the checkbox of an existing image is ticked when its
\* url is the backgroundImage, the checkbox of a pending file never
Rendered(m) ==
    [m EXCEPT !.checked =
        {<<"existing", k>> : k \in
            {j \in DOMAIN m.currentItem["media"] :
                /\ IsImage(m.currentItem["media"][j])
                /\ HasOwn(m.currentItem, "backgroundImage")
                /\ m.currentItem["backgroundImage"] = m.currentItem["media"][j]}}]

\* open(item): a copy of the item, no pending files, the edit section
Opened(item) ==
    Rendered([open |-> TRUE, authenticated |-> TRUE, currentItem |-> item,
              shared |-> Shared, checked |-> {},
              mediaFiles |-> <<>>, pendingBackgroundIndex |-> 0,
              disabled |-> FALSE, pc |-> "form", i |-> 0, file |-> Null,
              uploadedMedia |-> <<>>, newBackgroundImageUrl |-> Null,
              updates |-> NoUpdates, alert |-> "none"])

\* a note is taken where the part that runs keeps it
Note(h, k, v) == IF k \in DOMAIN h THEN [h EXCEPT ![k] = v] ELSE h

\* what the ticked checkboxes stand for: the url of an existing image, the
\* url a pending file gets when it is uploaded
CheckedUrls(m) ==
    {IF box[1] = "existing" THEN m.currentItem["media"][box[2]]
     ELSE UrlOf(m.mediaFiles[box[2]]) : box \in m.checked}

\* (mutant) one file more than the limit gets through
AfterHandleFilesOneMore(m, files) ==
    LET newFiles == SelectSeq(files, IsValidFile)
        totalFiles == Len(m.currentItem["media"]) + Len(m.mediaFiles) + Len(newFiles)
    IN  IF totalFiles > maxFiles + 1
        THEN m
        ELSE Rendered([m EXCEPT !.mediaFiles = @ \o newFiles])

\* handleFiles(files)
AfterHandleFiles(m, files) ==
    LET newFiles == SelectSeq(files, IsValidFile)
        totalFiles == Len(m.currentItem["media"]) + Len(m.mediaFiles) + Len(newFiles)
    IN  IF totalFiles > maxFiles
        THEN m
        ELSE Rendered([m EXCEPT !.mediaFiles = @ \o newFiles])

\* const updates = {...} of save()
ModalUpdates(m) ==
    LET u == [SaveUpdates(m.currentItem, "t1", "d1")
                 EXCEPT !["media"] = @ \o m.uploadedMedia]
    IN  IF m.newBackgroundImageUrl # Null
        THEN SetField(u, "backgroundImage", m.newBackgroundImageUrl)
        ELSE u

\* the outer catch of save(): the locals are gone, the alert is shown
SaveCaught(m) ==
    [m EXCEPT !.pc = "ended", !.alert = "Failed to save changes",
              !.i = 0, !.file = Null, !.uploadedMedia = <<>>,
              !.newBackgroundImageUrl = Null, !.updates = NoUpdates]

\* the head of the upload loop: the next file is taken, or the loop is left
\* and updateSingleProject is called; a closed modal has no currentItem
LoopHead(m) ==
    IF ~m.open THEN SaveCaught(m)
    ELSE IF m.i <= Len(m.mediaFiles)
    THEN [m EXCEPT !.pc = "uploading", !.file = m.mediaFiles[m.i]]
    ELSE [m EXCEPT !.pc = "updating", !.file = Null, !.updates = ModalUpdates(m)]

\* uploadMedia resolved: the entry is kept and the loop goes on
AfterUpload(m) ==
    LET url == UrlOf(m.file)
    IN  LoopHead([m EXCEPT !.uploadedMedia = Append(@, url),
                           !.newBackgroundImageUrl =
                               IF m.pendingBackgroundIndex = m.i THEN url ELSE @,
                           !.i = @ + 1])

InitModal ==
    /\ \E item \in OpenedItems :
        /\ store = [sha |-> 1, doc |-> <<item>>]
        /\ cl = [c \in Clients |-> IF c = Saver THEN Opened(item) ELSE Off]
        /\ hist = [opened |-> item, batch |-> 0, calls |-> 0]
    /\ clock = 0
    /\ faults = 0
    /\ log = [c \in Clients |-> <<>>]

\* the modal is shown and no alert or reload is in the way
Editable == cl[Saver].open /\ cl[Saver].pc # "ended"

\* files are dropped or picked
HandleFilesFrom(batches) ==
    /\ Editable
    /\ \E files \in batches :
        /\ cl' = [cl EXCEPT ![Saver] = AfterHandleFiles(@, files)]
        /\ hist' = [hist EXCEPT !.batch = Len(SelectSeq(files, IsValidFile))]
    /\ UNCHANGED <<store, clock, faults, log>>

HandleFiles == HandleFilesFrom(Batches)

\* the remove button of an existing entry, confirmed
RemoveExisting ==
    /\ Editable
    /\ \E index \in DOMAIN cl[Saver].currentItem["media"] :
        cl' = [cl EXCEPT ![Saver] =
                  Rendered([@ EXCEPT !.currentItem =
                               SetField(@, "media", Splice(@["media"], index))])]
    /\ hist' = Note([hist EXCEPT !.opened = ItemOfPage(@, cl'[Saver])],
                    "edited", TRUE)
    /\ UNCHANGED <<store, clock, faults, log>>

\* the remove button of a pending file
RemovePending ==
    /\ Editable
    /\ \E index \in DOMAIN cl[Saver].mediaFiles :
        cl' = [cl EXCEPT ![Saver] =
                  Rendered([@ EXCEPT !.mediaFiles = Splice(@, index)])]
    /\ UNCHANGED <<store, clock, faults, log, hist>>

\* the background checkbox of an existing image is ticked
CheckExisting ==
    /\ Editable
    /\ \E index \in DOMAIN cl[Saver].currentItem["media"] :
        /\ IsImage(cl[Saver].currentItem["media"][index])
        /\ cl' = [cl EXCEPT ![Saver] =
                     [@ EXCEPT !.currentItem =
                                   SetField(@, "backgroundImage", @["media"][index]),
                               !.checked = {<<"existing", index>>}]]
    /\ hist' = Note([hist EXCEPT !.opened = ItemOfPage(@, cl'[Saver])],
                    "edited", TRUE)
    /\ UNCHANGED <<store, clock, faults, log>>

\* the background checkbox of a pending image is ticked
CheckNew ==
    /\ Editable
    /\ \E index \in DOMAIN cl[Saver].mediaFiles :
        /\ IsImage(cl[Saver].mediaFiles[index])
        /\ cl' = [cl EXCEPT ![Saver] =
                     [@ EXCEPT !.pendingBackgroundIndex = index,
                               !.checked = {<<"new", index>>}]]
    /\ hist' = Note(hist, "choseNew", TRUE)
    /\ UNCHANGED <<store, clock, faults, log>>

\* a ticked background checkbox is cleared
Uncheck ==
    /\ Editable
    /\ cl[Saver].checked # {}
    /\ cl' = [cl EXCEPT ![Saver] =
                [@ EXCEPT !.currentItem = SetField(@, "backgroundImage", Null),
                          !.pendingBackgroundIndex = 0,
                          !.checked = {}]]
    /\ hist' = Note([hist EXCEPT !.opened = ItemOfPage(@, cl'[Saver])],
                    "edited", TRUE)
    /\ UNCHANGED <<store, clock, faults, log>>

\* the save button: save() up to its first await
SaveModal ==
    /\ cl[Saver].open
    /\ ~cl[Saver].disabled
    /\ cl[Saver].pc = "form"
    /\ cl' = [cl EXCEPT ![Saver] =
                LoopHead([@ EXCEPT !.i = 1, !.uploadedMedia = <<>>,
                                   !.newBackgroundImageUrl = Null,
                                   !.alert = "none"])]
    /\ hist' = Note([hist EXCEPT !.calls = 0], "atSave", CheckedUrls(cl[Saver]))
    /\ UNCHANGED <<store, clock, faults, log>>

\* uploadMedia settles
Upload ==
    /\ cl[Saver].pc = "uploading"
    /\ \E ok \in BOOLEAN :
        cl' = [cl EXCEPT ![Saver] = IF ok THEN AfterUpload(@) ELSE SaveCaught(@)]
    /\ UNCHANGED <<store, clock, faults, log, hist>>

\* updateSingleProject settles
UpdateModal ==
    /\ cl[Saver].pc = "updating"
    /\ \E ok \in BOOLEAN :
        LET itemIndex == FindIndex(store.doc, hist.opened["hash"])
        IN  IF ok /\ itemIndex # 0
            THEN /\ store' = [sha |-> store.sha + 1,
                              doc |-> Patched("update", store.doc, itemIndex,
                                              cl[Saver].updates, 1)]
                 /\ cl' = [cl EXCEPT ![Saver].pc = "ended"]
            ELSE /\ store' = store
                 /\ cl' = [cl EXCEPT ![Saver] = SaveCaught(@)]
    /\ hist' = [hist EXCEPT !.calls = 1]
    /\ UNCHANGED <<clock, faults, log>>

\* the alert of a failed save or delete is dismissed; the modal stays
Dismiss ==
    /\ cl[Saver].pc = "ended"
    /\ cl[Saver].alert # "none"
    /\ cl' = [cl EXCEPT ![Saver] = [@ EXCEPT !.pc = "form", !.alert = "none"]]
    /\ UNCHANGED <<store, clock, faults, log, hist>>

\* this.currentItem = null
NoItem == [hash |-> Null, media |-> <<>>]

\* close()
Closed(m) ==
    [m EXCEPT !.open = FALSE, !.currentItem = NoItem, !.mediaFiles = <<>>,
              !.checked = {}]

\* the delete button: delete() up to its await, the three buttons disabled
DeleteModal ==
    /\ cl[Saver].open
    /\ ~cl[Saver].disabled
    /\ cl[Saver].pc = "form"
    /\ cl' = [cl EXCEPT ![Saver] = [@ EXCEPT !.pc = "deleting", !.disabled = TRUE,
                                             !.alert = "none"]]
    /\ UNCHANGED <<store, clock, faults, log, hist>>

\* deleteSingleProject settles
DeleteSettles ==
    /\ cl[Saver].pc = "deleting"
    /\ \E ok \in BOOLEAN :
        LET itemIndex == FindIndex(store.doc, hist.opened["hash"])
        IN  IF ok /\ itemIndex # 0
            THEN /\ store' = [sha |-> store.sha + 1,
                              doc |-> Patched("delete", store.doc, itemIndex,
                                              NoUpdates, 1)]
                 /\ cl' = [cl EXCEPT ![Saver].pc = "ended"]
            ELSE /\ store' = store
                 /\ cl' = [cl EXCEPT ![Saver] =
                              [@ EXCEPT !.pc = "ended", !.disabled = FALSE,
                                        !.alert = "Failed to delete micro action"]]
    /\ UNCHANGED <<clock, faults, log, hist>>

\* the cross in the corner of the modal, or a click beside the modal
CloseButton ==
    /\ cl[Saver].open
    /\ cl' = [cl EXCEPT ![Saver] = Closed(@)]
    /\ UNCHANGED <<store, clock, faults, log, hist>>

\* the cancel button
CancelButton ==
    /\ cl[Saver].open
    /\ ~cl[Saver].disabled
    /\ cl' = [cl EXCEPT ![Saver] = Closed(@)]
    /\ UNCHANGED <<store, clock, faults, log, hist>>

\* the logout button of the modal, confirmed
LogoutModal ==
    /\ cl[Saver].open
    /\ cl' = [cl EXCEPT ![Saver] = [Closed(@) EXCEPT !.authenticated = FALSE]]
    /\ UNCHANGED <<store, clock, faults, log, hist>>

\* the card is clicked again: open(item) with the item of the page
Reopen ==
    /\ ~cl[Saver].open
    /\ cl[Saver].authenticated
    /\ cl[Saver].pc = "form"
    /\ cl' = [cl EXCEPT ![Saver] =
                Rendered([@ EXCEPT !.open = TRUE, !.currentItem = hist.opened,
                                   !.shared = Shared, !.mediaFiles = <<>>])]
    /\ hist' = Note(Note(hist, "edited", FALSE), "choseNew", FALSE)
    /\ UNCHANGED <<store, clock, faults, log>>

\* the media of the item are edited and saved
NextModal ==
    \/ HandleFiles
    \/ RemoveExisting
    \/ RemovePending
    \/ CheckExisting
    \/ CheckNew
    \/ Uncheck
    \/ SaveModal
    \/ Upload
    \/ UpdateModal
    \/ Dismiss

SpecModal == InitModal /\ [][NextModal]_vars

\* two files that can be told apart, dropped one at a time
NamedBatches == {<<"f1">>, <<"f2">>}

HandleNamedFiles == HandleFilesFrom(NamedBatches)

\* pending files are added and removed while save() uploads them
NextUploads ==
    \/ HandleNamedFiles
    \/ RemovePending
    \/ SaveModal
    \/ Upload
    \/ UpdateModal
    \/ Dismiss

SpecUploads == InitModal /\ [][NextUploads]_vars

\* the buttons of the modal
NextButtons ==
    \/ HandleFiles
    \/ SaveModal
    \/ Upload
    \/ UpdateModal
    \/ Dismiss
    \/ DeleteModal
    \/ DeleteSettles
    \/ CloseButton
    \/ CancelButton
    \/ LogoutModal
    \/ Reopen

SpecButtons == InitModal /\ [][NextButtons]_vars

\* the same start, with notes on the session: the item as the page loaded
\* it, whether this.currentItem was written, whether a pending file was
\* chosen as the background, and what the ticked checkboxes stood for when
\* save() was called
InitSessions ==
    /\ \E item \in OpenedItems :
        /\ store = [sha |-> 1, doc |-> <<item>>]
        /\ cl = [c \in Clients |-> IF c = Saver THEN Opened(item) ELSE Off]
        /\ hist = [opened |-> item, first |-> item, batch |-> 0, calls |-> 0,
                   edited |-> FALSE, choseNew |-> FALSE, atSave |-> {}]
    /\ clock = 0
    /\ faults = 0
    /\ log = [c \in Clients |-> <<>>]

\* one image is dropped
HandleImage == HandleFilesFrom({<<"f1">>})

\* the item is edited, saved or left, and opened again
NextSessions ==
    \/ HandleImage
    \/ RemoveExisting
    \/ RemovePending
    \/ CheckExisting
    \/ CheckNew
    \/ Uncheck
    \/ SaveModal
    \/ Upload
    \/ UpdateModal
    \/ Dismiss
    \/ CloseButton
    \/ CancelButton
    \/ Reopen

SpecSessions == InitSessions /\ [][NextSessions]_vars

(***************************************************************************)
(* The start of the page.  In this part `store` is the window: the API     *)
(* object, the githubAPILoaded flag, window.editModal, the readyState of   *)
(* the document, the timers set and the listeners added; cl[Saver] holds   *)
(* the variables of edit-modal.js; `hist` remembers whether the event was  *)
(* dispatched before anyone listened and whether the ten seconds passed    *)
(* before github-api.js had run.                                           *)
(***************************************************************************)
FreshWindow ==
    [githubAPI |-> "none", githubAPILoaded |-> FALSE, editModal |-> "none",
     readyState |-> "loading", timers |-> {}, listeners |-> {}]

NotRun == [ran |-> FALSE, domReady |-> FALSE, githubAPIReady |-> FALSE]

\* initializeEditModal(): a modal is made unless window.editModal is there;
\* when new EditModal() throws, the function is called again 100 ms later
InitializeEditModal(w, throws) ==
    IF w.editModal # "none" THEN w
    ELSE IF throws THEN [w EXCEPT !.timers = @ \cup {"retry"}]
    ELSE [w EXCEPT !.editModal = "real"]

\* checkAndInitialize()
CheckAndInitialize(w, script, throws) ==
    IF script.domReady /\ script.githubAPIReady
    THEN InitializeEditModal(w, throws)
    ELSE w

\* what new EditModal() may do in a call of initializeEditModal: it throws at
\* most MaxFaults times in all, and only where it is called
Throws(w, ready) ==
    IF ready /\ w.editModal = "none" /\ faults < MaxFaults THEN BOOLEAN ELSE {FALSE}

Thrown(throws) == IF throws THEN 1 ELSE 0

\* (mutant) the flag is not looked at
AlreadyLoadedIgnored(w) == FALSE

\* if (window.githubAPILoaded)
AlreadyLoaded(w) == w.githubAPILoaded

InitStart ==
    /\ store = FreshWindow
    /\ cl = [c \in Clients |-> IF c = Saver THEN NotRun ELSE Off]
    /\ clock = 0
    /\ faults = 0
    /\ log = [c \in Clients |-> <<>>]
    /\ hist = [missed |-> FALSE, late |-> FALSE]

\* github-api.js runs: the object or its fallback, the timer of the event, the flag
RunGithubApi ==
    /\ store.githubAPI = "none"
    /\ \E made \in {"real", "fallback"} :
        store' = [store EXCEPT !.githubAPI = made, !.githubAPILoaded = TRUE,
                               !.timers = @ \cup {"dispatch"}]
    /\ UNCHANGED <<cl, clock, faults, log, hist>>

\* the timer of github-api.js fires: the event goes to whoever listens
DispatchReady ==
    /\ "dispatch" \in store.timers
    /\ LET w == [store EXCEPT !.timers = @ \ {"dispatch"}]
           script == [cl[Saver] EXCEPT !.githubAPIReady = TRUE]
       IN  IF "githubAPIReady" \in store.listeners
           THEN \E throws \in Throws(w, script.domReady) :
                /\ cl' = [cl EXCEPT ![Saver] = script]
                /\ store' = CheckAndInitialize(w, script, throws)
                /\ faults' = faults + Thrown(throws)
                /\ hist' = hist
           ELSE /\ cl' = cl
                /\ store' = w
                /\ faults' = faults
                /\ hist' = [hist EXCEPT !.missed = TRUE]
    /\ UNCHANGED <<clock, log>>

\* edit-modal.js runs
RunEditModal ==
    /\ ~cl[Saver].ran
    /\ LET loading == store.readyState = "loading"
       IN  /\ cl' = [cl EXCEPT ![Saver] =
                        [ran |-> TRUE, domReady |-> ~loading,
                         githubAPIReady |-> AlreadyLoaded(store)]]
           /\ store' = [store EXCEPT
                          !.listeners = @ \cup {"githubAPIReady"}
                                          \cup (IF loading THEN {"DOMContentLoaded"}
                                                ELSE {}),
                          !.timers = @ \cup {"fallback"}
                                       \cup (IF loading THEN {} ELSE {"check"})]
    /\ UNCHANGED <<clock, faults, log, hist>>

\* the document has been parsed
DomContentLoaded ==
    /\ store.readyState = "loading"
    /\ LET w == [store EXCEPT !.readyState = "interactive"]
           script == [cl[Saver] EXCEPT !.domReady = TRUE]
       IN  IF "DOMContentLoaded" \in store.listeners
           THEN \E throws \in Throws(w, script.githubAPIReady) :
                /\ cl' = [cl EXCEPT ![Saver] = script]
                /\ store' = CheckAndInitialize(w, script, throws)
                /\ faults' = faults + Thrown(throws)
           ELSE /\ cl' = cl
                /\ store' = w
                /\ faults' = faults
    /\ UNCHANGED <<clock, log, hist>>

\* setTimeout(checkAndInitialize, 0) fires
CheckTimer ==
    /\ "check" \in store.timers
    /\ LET w == [store EXCEPT !.timers = @ \ {"check"}]
       IN  \E throws \in Throws(w, cl[Saver].domReady /\ cl[Saver].githubAPIReady) :
            /\ store' = CheckAndInitialize(w, cl[Saver], throws)
            /\ faults' = faults + Thrown(throws)
    /\ UNCHANGED <<cl, clock, log, hist>>

\* setTimeout(initializeEditModal, 100) fires
RetryTimer ==
    /\ "retry" \in store.timers
    /\ LET w == [store EXCEPT !.timers = @ \ {"retry"}]
       IN  \E throws \in Throws(w, TRUE) :
            /\ store' = InitializeEditModal(w, throws)
            /\ faults' = faults + Thrown(throws)
    /\ UNCHANGED <<cl, clock, log, hist>>

\* the timer of ten seconds fires; timers set earlier with no delay fire first
FallbackTimer ==
    /\ "fallback" \in store.timers
    /\ store.timers \cap {"dispatch", "check"} = {}
    /\ store' = [store EXCEPT !.timers = @ \ {"fallback"},
                              !.editModal = IF cl[Saver].githubAPIReady THEN @
                                            ELSE "stub"]
    /\ hist' = [hist EXCEPT !.late = store.githubAPI = "none"]
    /\ UNCHANGED <<cl, clock, faults, log>>

NextStart ==
    \/ RunGithubApi
    \/ DispatchReady
    \/ RunEditModal
    \/ DomContentLoaded
    \/ CheckTimer
    \/ RetryTimer
    \/ FallbackTimer

\* every script that is loaded runs and every timer set fires
SpecStart == InitStart /\ [][NextStart]_vars /\ WF_vars(NextStart)

\* the same start on a page with a card: `shown` is what the last click on
\* the edit button of the card brought up
InitClick ==
    /\ store = SetField(FreshWindow, "shown", "nothing")
    /\ cl = [c \in Clients |-> IF c = Saver THEN NotRun ELSE Off]
    /\ clock = 0
    /\ faults = 0
    /\ log = [c \in Clients |-> <<>>]
    /\ hist = [missed |-> FALSE, late |-> FALSE]

\* the edit button of a card: window.editModal.open(item) when there is a
\* window.editModal, else a new EditModal when the class is there, else an
\* alert
EditClick ==
    /\ \E throws \in Throws(store, cl[Saver].ran) :
        /\ store' =
              IF store.editModal = "real" THEN [store EXCEPT !.shown = "modal"]
              ELSE IF store.editModal = "stub"
              THEN [store EXCEPT !.shown = "failed to load"]
              ELSE IF ~cl[Saver].ran THEN [store EXCEPT !.shown = "is loading"]
              ELSE IF throws THEN store
              ELSE [store EXCEPT !.editModal = "real", !.shown = "modal"]
        /\ faults' = faults + Thrown(throws)
    /\ <<store, faults>>' # <<store, faults>>
    /\ UNCHANGED <<cl, clock, log, hist>>

NextClick ==
    \/ NextStart
    \/ EditClick

\* every script runs, every timer fires, and the button is clicked again
\* whenever that brings up something else
SpecClick == InitClick /\ [][NextClick]_vars /\ WF_vars(NextClick)

(***************************************************************************)
(* Vocabulary of the properties.  These read the history only; none of     *)
(* them is computed with the patch engine's own operators unless said so.  *)
(***************************************************************************)
PatchableFields == {"title", "description", "media", "backgroundImage"}

Done(c) == cl[c].pc = "done"
Failed(c) == cl[c].pc = "failed"
Terminated(c) == Done(c) \/ Failed(c)

Events(c, kind) == {i \in DOMAIN log[c] : log[c][i].ev = kind}
OkFetches(c) == {i \in Events(c, "fetch") : log[c][i].resp = "ok"}
LastIsPut(c) == Len(log[c]) > 0 /\ log[c][Len(log[c])].ev = "put"
LastPutAccepted(c) == LastIsPut(c) /\ log[c][Len(log[c])].resp = "ok"

\* the positions of a sequence of records that carry hash h
Positions(items, h) == {i \in DOMAIN items : items[i]["hash"] = h}

\* item carries what `updates` asks for in the four editable fields
Carries(item, updates) ==
    \A k \in PatchableFields \cap DOMAIN updates :
        IF k = "backgroundImage" /\ updates[k] = Null
        THEN k \notin DOMAIN item
        ELSE k \in DOMAIN item /\ item[k] = updates[k]

\* doc shows the change that the operation with locals l asked for
ChangeIn(doc, l) ==
    IF l.op = "delete"
    THEN Positions(doc, l.itemHash) = {}
    ELSE \E i \in Positions(doc, l.itemHash) : Carries(doc[i], l.updates)

\* both sessions fetched the same version before either wrote
ReadSameHash(c, d) ==
    /\ OkFetches(c) # {} /\ OkFetches(d) # {}
    /\ log[c][1].sha = log[d][1].sha

(***************************************************************************)
(* C1.  Two clients that read the document at the same hash and run an     *)
(* update or a delete on different records both finish successfully under  *)
(* a compare-and-swap store, and once both have finished the stored        *)
(* document shows both changes.                                            *)
(***************************************************************************)
C1_BothChangesSurvive ==
    \A c \in Clients : \A d \in Clients \ {c} :
        (cl[c].itemHash # cl[d].itemHash /\ ReadSameHash(c, d)) =>
            /\ Terminated(c) => Done(c)
            /\ (Done(c) /\ Done(d)) =>
                   ChangeIn(store.doc, cl[c]) /\ ChangeIn(store.doc, cl[d])

C1_Witness ==
    \E c \in Clients : \E d \in Clients \ {c} :
        /\ cl[c].itemHash # cl[d].itemHash /\ ReadSameHash(c, d)
        /\ Done(c) /\ Done(d)
        /\ cl[c].retryCount = 1 /\ cl[d].retryCount = 0
        /\ cl[c].op = "update" /\ cl[d].op = "delete"

(***************************************************************************)
(* C2.  An update during whose fetch-to-write window exactly one other     *)
(* write was committed, that write being on another record, succeeds       *)
(* after exactly one retry: two fetch cycles, the second cycle's write     *)
(* accepted, and the document it writes still shows the other change.      *)
(***************************************************************************)
C2_OneRetryKeepsOtherChange ==
    \A c \in Clients : \A d \in Clients \ {c} :
        (/\ cl[c].op = "update"
         /\ hist[c].stale = 1
         /\ cl[d].itemHash # cl[c].itemHash
         /\ Terminated(c)) =>
            /\ Done(c)
            /\ cl[c].retryCount = 1
            /\ Cardinality(OkFetches(c)) = 2
            /\ LastPutAccepted(c)
            /\ log[c][Len(log[c])].cycle = 1
            /\ ChangeIn(hist[c].body, cl[d])
            /\ ChangeIn(hist[c].body, cl[c])

C2_Witness ==
    \E c \in Clients : \E d \in Clients \ {c} :
        /\ cl[c].op = "update" /\ hist[c].stale = 1
        /\ cl[d].itemHash # cl[c].itemHash /\ cl[d].op = "update"
        /\ Done(c) /\ cl[c].retryCount = 1

(***************************************************************************)
(* C3.  After a write was rejected as a hash conflict, no later write of   *)
(* the same operation carries the same hash, and a successful fetch lies   *)
(* between the rejected write and every later one.                         *)
(***************************************************************************)
C3_NoBlindRetry ==
    \A c \in Clients : \A i \in Events(c, "put") : \A j \in Events(c, "put") :
        (i < j /\ log[c][i].resp \in ConflictSignals) =>
            /\ log[c][j].sha # log[c][i].sha
            /\ \E k \in OkFetches(c) : i < k /\ k < j

(***************************************************************************)
(* C4.  Every write carries the hash returned by the most recent fetch of  *)
(* its own cycle, and its body is the patch of the records that this       *)
(* fetch returned.                                                         *)
(***************************************************************************)
C4_WriteUsesLatestFetch ==
    \A c \in Clients :
        /\ \A j \in Events(c, "put") :
               \E k \in OkFetches(c) :
                   /\ k < j
                   /\ \A m \in OkFetches(c) : m < j => m <= k
                   /\ log[c][k].cycle = log[c][j].cycle
                   /\ log[c][k].sha = log[c][j].sha
        /\ LastIsPut(c) =>
               /\ hist[c].index # 0
               /\ hist[c].fetchedSha = log[c][Len(log[c])].sha
               /\ hist[c].body = Patched(cl[c].op, hist[c].fetched, hist[c].index,
                                         cl[c].updates, hist[c].now)

C4_Witness ==
    \E c \in Clients :
        /\ Done(c) /\ cl[c].retryCount = 1
        /\ \E i \in Events(c, "fetch") : log[c][i].resp = "neterr"
        /\ \E j \in Events(c, "put") : log[c][j].resp = "500"
        /\ hist[c].fetched # Doc0

\* two records of the sequence carry the same hash
TwoShareAHash(items) ==
    \E i \in DOMAIN items : \E j \in DOMAIN items :
        i # j /\ items[i]["hash"] = items[j]["hash"]

\* the sequence the operation computed from its last fetch
PatchedOf(c) ==
    Patched(cl[c].op, hist[c].fetched, hist[c].index, cl[c].updates, hist[c].now)

(***************************************************************************)
(* C5.  When the patched (or post-delete) sequence holds two records with  *)
(* the same hash, the operation has failed with the integrity error, has   *)
(* sent no write, and is not retried: one fetch, retry count 0.            *)
(***************************************************************************)
C5_IntegrityGate ==
    \A c \in Clients :
        (OkFetches(c) # {} /\ hist[c].index # 0 /\ TwoShareAHash(PatchedOf(c))) =>
            /\ Failed(c) /\ cl[c].error = "Integrity"
            /\ Events(c, "put") = {}
            /\ Cardinality(Events(c, "fetch")) = 1
            /\ cl[c].retryCount = 0

C5_Witness ==
    \E c \in Clients :
        /\ cl[c].op = "delete" /\ cl[c].error = "Integrity"
        /\ Len(hist[c].fetched) = 3
        /\ Positions(hist[c].fetched, cl[c].itemHash) = {1}

(***************************************************************************)
(* C6.  The document an update writes has the length and the record order  *)
(* of the fetched one, and every record but the target is identical to     *)
(* its fetched value.                                                      *)
(***************************************************************************)
C6_OnlyTargetReplaced ==
    \A c \in Clients :
        (cl[c].op = "update" /\ LastIsPut(c)) =>
            /\ Len(hist[c].body) = Len(hist[c].fetched)
            /\ \E t \in Positions(hist[c].fetched, cl[c].itemHash) :
                   /\ hist[c].body[t]["hash"] = hist[c].fetched[t]["hash"]
                   /\ \A i \in DOMAIN hist[c].fetched \ {t} :
                          hist[c].body[i] = hist[c].fetched[i]

C6_Witness ==
    \E c \in Clients :
        /\ cl[c].op = "update" /\ Done(c)
        /\ Len(hist[c].fetched) = 3
        /\ Positions(hist[c].fetched, cl[c].itemHash) = {2}
        /\ hist[c].body[2] # hist[c].fetched[2]

(***************************************************************************)
(* C7.  In the record an update writes, every field of the target that     *)
(* `updates` does not name, lastEdited aside, has the value of the freshly *)
(* fetched record, whatever the page's own copy of the record holds, and   *)
(* no field appears that is neither fetched nor named.                     *)
(***************************************************************************)
C7_UnnamedFieldsFromFetch ==
    \A c \in Clients :
        (cl[c].op = "update" /\ LastIsPut(c)) =>
            /\ Len(hist[c].body) = Len(hist[c].fetched)
            /\ \E t \in Positions(hist[c].fetched, cl[c].itemHash) :
                   LET named == PatchableFields \cap DOMAIN cl[c].updates
                       old == hist[c].fetched[t]
                       new == hist[c].body[t]
                   IN  /\ \A f \in DOMAIN old \ (named \cup {"lastEdited"}) :
                              f \in DOMAIN new /\ new[f] = old[f]
                       /\ DOMAIN new \subseteq DOMAIN old \cup named \cup {"lastEdited"}

C7_Witness ==
    \E c \in Clients :
        /\ cl[c].op = "update" /\ Done(c)
        /\ DOMAIN cl[c].updates = {"title"}
        /\ \E t \in Positions(hist[c].fetched, cl[c].itemHash) :
               /\ hist[c].fetched[t] = RecA2
               /\ hist[c].body[t]["description"] = "dx"
               /\ hist[c].body[t]["title"] = "t9"

(***************************************************************************)
(* C8.  The hash of the target is never changed by an update, also when    *)
(* `updates` has a `hash` key: the record written at the target position   *)
(* carries the fetched hash, which is the requested itemHash.              *)
(***************************************************************************)
C8_HashImmutable ==
    \A c \in Clients :
        (cl[c].op = "update" /\ LastIsPut(c)) =>
            /\ Len(hist[c].body) = Len(hist[c].fetched)
            /\ \E t \in Positions(hist[c].fetched, cl[c].itemHash) :
                   /\ \A j \in Positions(hist[c].fetched, cl[c].itemHash) : t <= j
                   /\ hist[c].body[t]["hash"] = cl[c].itemHash
                   /\ hist[c].body[t]["hash"] = hist[c].fetched[t]["hash"]

C8_Witness ==
    \E c \in Clients :
        /\ cl[c].op = "update" /\ Done(c)
        /\ "hash" \in DOMAIN cl[c].updates
        /\ cl[c].updates["hash"] # cl[c].itemHash

(***************************************************************************)
(* C9.  For each of title, description, media and backgroundImage that     *)
(* `updates` names, the written target holds exactly the requested value;  *)
(* backgroundImage null removes the field; an `updates` without            *)
(* backgroundImage leaves the field as fetched, present or absent.         *)
(***************************************************************************)
C9_NamedFieldsWritten ==
    \A c \in Clients :
        (cl[c].op = "update" /\ LastIsPut(c)) =>
            /\ Len(hist[c].body) = Len(hist[c].fetched)
            /\ \E t \in Positions(hist[c].fetched, cl[c].itemHash) :
                   LET u == cl[c].updates
                       old == hist[c].fetched[t]
                       new == hist[c].body[t]
                       bg == "backgroundImage"
                   IN  /\ \A k \in {"title", "description", "media"} \cap DOMAIN u :
                              k \in DOMAIN new /\ new[k] = u[k]
                       /\ (bg \in DOMAIN u /\ u[bg] = Null) => bg \notin DOMAIN new
                       /\ (bg \in DOMAIN u /\ u[bg] # Null) =>
                              bg \in DOMAIN new /\ new[bg] = u[bg]
                       /\ bg \notin DOMAIN u =>
                              /\ bg \in DOMAIN new <=> bg \in DOMAIN old
                              /\ bg \in DOMAIN old => new[bg] = old[bg]

C9_Witness ==
    \E c \in Clients :
        /\ cl[c].op = "update" /\ Done(c)
        /\ DOMAIN cl[c].updates = PatchableFields
        /\ cl[c].updates["backgroundImage"] = Null
        /\ \E t \in Positions(hist[c].fetched, cl[c].itemHash) :
               /\ "backgroundImage" \in DOMAIN hist[c].fetched[t]
               /\ "backgroundImage" \notin DOMAIN store.doc[t]
               /\ store.doc[t]["media"] = <<"u9">>

C11_NoHashAdded ==
    [][store'.sha # store.sha => Hashes(store'.doc) \subseteq Hashes(store.doc)]_vars

\* an update went through after another session's delete, after a read whose
\* body was newer than its sha, and the deleted record is not in the store
C11_Witness ==
    \E c \in Clients : \E d \in Clients \ {c} :
        /\ cl[c].op = "update" /\ Done(c) /\ cl[c].retryCount = 1
        /\ cl[d].op = "delete" /\ Done(d)
        /\ \E i \in OkFetches(c) : "at" \in DOMAIN log[c][i] /\ log[c][i].at # log[c][i].sha
        /\ cl[d].itemHash \notin Hashes(hist[c].fetched)
        /\ cl[d].itemHash \notin Hashes(store.doc)
        /\ Len(store.doc) = 1

\* the events of kind `kind` that session c sent in cycle n
EventsOfCycle(c, kind, n) == {i \in Events(c, kind) : log[c][i].cycle = n}

(***************************************************************************)
(* C12.  When every write is rejected as a conflict, the operation makes   *)
(* at most maxRetries = 3 re-fetch retries, four fetch-patch-write cycles  *)
(* in all, and then fails with the "concurrent updates" error.             *)
(***************************************************************************)
C12_StormExhaustsRetries ==
    \A c \in Clients :
        (\A j \in Events(c, "put") : log[c][j].resp \in ConflictSignals) =>
            /\ cl[c].retryCount <= maxRetries
            /\ Cardinality(OkFetches(c)) <= maxRetries + 1
            /\ \A n \in 0..maxRetries : Cardinality(EventsOfCycle(c, "fetch", n)) <= 1
            /\ ~Done(c)
            /\ Failed(c) =>
                   /\ cl[c].error = "ConcurrentUpdates"
                   /\ cl[c].retryCount = maxRetries
                   /\ Cardinality(OkFetches(c)) = maxRetries + 1
                   /\ \A n \in 0..maxRetries :
                          /\ Cardinality(EventsOfCycle(c, "fetch", n)) = 1
                          /\ EventsOfCycle(c, "put", n) # {}

C12_Witness ==
    \E c \in Clients :
        /\ Failed(c) /\ cl[c].error = "ConcurrentUpdates" /\ cl[c].op = "delete"
        /\ Cardinality(Events(c, "put")) = 2 * maxRetries
        /\ \E j \in Events(c, "put") : log[c][j].resp = "422_is_at"

\* the sessions that run an operation
Running == {c \in Clients : cl[c].pc # "off"}

C13_Bounds ==
    \A c \in Running :
        /\ cl[c].retryCount <= maxRetries
        /\ hist[c].conflictRetries <= maxRetries
        /\ hist[c].fetchesInCycle <= maxAttempts
        /\ hist[c].putsInCycle <= updateMaxAttempts
        /\ Failed(c) => cl[c].error # "none"

(***************************************************************************)
(* C13.  Whatever the store answers and whichever requests throw, the      *)
(* operation terminates, done or failed with an error; it never goes       *)
(* deeper than 3 retries and never sends more than 3 fetches or more than  *)
(* 3 PUTs in one cycle.                                                    *)
(***************************************************************************)
C13_AlwaysTerminates ==
    /\ []C13_Bounds
    /\ \A c \in Clients : (cl[c].pc # "off") ~> Terminated(c)

C13_Witness ==
    \E c \in Running :
        /\ Done(c) /\ cl[c].retryCount = maxRetries
        /\ hist[c].fetchesInCycle = maxAttempts
        /\ hist[c].putsInCycle = updateMaxAttempts

(***************************************************************************)
(* C14.  After a fetch or a PUT was answered 401 or 403 the operation      *)
(* sends no further request.                                               *)
(***************************************************************************)
C14_AuthFailsAtOnce ==
    \A c \in Running : ~hist[c].sentAfterAuth

(***************************************************************************)
(* C15.  When the target hash is absent from the document just fetched,    *)
(* the operation has failed with the not-found error, has sent no write    *)
(* in that cycle and has not started another cycle; this also holds in a   *)
(* cycle started by a conflict retry.                                      *)
(***************************************************************************)
C15_NotFoundIsTerminal ==
    \A c \in Clients :
        (OkFetches(c) # {} /\ cl[c].itemHash \notin Hashes(hist[c].fetched)) =>
            /\ Failed(c) /\ cl[c].error = "NotFound"
            /\ Len(log[c]) \in OkFetches(c)
            /\ cl[c].retryCount = log[c][Len(log[c])].cycle
            /\ EventsOfCycle(c, "put", cl[c].retryCount) = {}
            /\ Cardinality(EventsOfCycle(c, "fetch", cl[c].retryCount)) = 1

C15_Witness ==
    \E c \in Clients : \E d \in Clients \ {c} :
        /\ Failed(c) /\ cl[c].error = "NotFound" /\ cl[c].retryCount = 1
        /\ cl[c].op = "update"
        /\ cl[d].op = "delete" /\ Done(d) /\ cl[d].itemHash = cl[c].itemHash
        /\ \E j \in Events(c, "put") : log[c][j].resp \in ConflictSignals

\* the last request of session c was a fetch and it failed
FetchJustFailed(c) == hist[c].lastKind = "fetch" /\ hist[c].lastResp # "ok"

(***************************************************************************)
(* C16.  A failed fetch is tried again while fewer than 3 fetches were     *)
(* sent in the cycle; after the third the operation fails as unavailable,  *)
(* with no PUT sent in that cycle.  Fetch failures leave the retry count   *)
(* alone, and every cycle, also one started by a conflict retry, has the   *)
(* full 3 fetch attempts.                                                  *)
(***************************************************************************)
C16_FetchBudget ==
    \A c \in Running :
        /\ FetchJustFailed(c) =>
               /\ cl[c].retryCount = hist[c].lastRetryCount
               /\ hist[c].putsInCycle = 0
               /\ IF hist[c].fetchesInCycle < maxAttempts
                  THEN cl[c].pc = "fetch"
                  ELSE Failed(c) /\ cl[c].error = "Unavailable"
        /\ cl[c].error = "Unavailable" =>
               /\ FetchJustFailed(c)
               /\ hist[c].fetchesInCycle = maxAttempts
        /\ cl[c].error = "ConcurrentUpdates" => hist[c].conflictRetries = maxRetries

C16_Witness ==
    \E c \in Running :
        /\ Failed(c) /\ cl[c].error = "Unavailable"
        /\ cl[c].retryCount = 2 /\ hist[c].conflictRetries = 2
        /\ hist[c].fetchesInCycle = maxAttempts

(***************************************************************************)
(* C17.  A response that says the write precondition did not hold (409,    *)
(* 412, or 422 with a hash-mismatch message) is treated as a conflict:     *)
(* while retry budget remains, the operation does not give up on it.       *)
(***************************************************************************)
C17_EveryConflictSignalRetried ==
    \A c \in Running :
        (/\ Failed(c)
         /\ hist[c].lastKind = "put"
         /\ hist[c].lastResp \in PreconditionSignals) =>
            /\ cl[c].retryCount = maxRetries
            /\ cl[c].error = "ConcurrentUpdates"

\* save() has ended after updateSingleProject resolved
SavedAndEnded == cl[Saver].pc = "ended" /\ cl[Saver].resolved

(***************************************************************************)
(* C19.  Once updateSingleProject has resolved, whatever the verification  *)
(* read returns, save() does not take its failure path and the edit is     *)
(* reported as saved, at most with a warning.                              *)
(***************************************************************************)
C19_VerifyNeverFailsTheSave ==
    SavedAndEnded =>
        /\ cl[Saver].alert # "Failed to save changes"
        /\ cl[Saver].progressText \in {"Success! Changes saved to GitHub.",
                                       "Saved (verification pending)"}

\* the last request of session c was a PUT that the store accepted
AckedLast(c) == hist[c].lastKind = "put" /\ hist[c].lastResp = "ok"

(***************************************************************************)
(* C18.  The operation resolves only when the store answered one of its    *)
(* PUTs with ok, and then the store holds the body it sent; every other    *)
(* way of ending is a failure that carries its error.                      *)
(***************************************************************************)
C18_ResolvesOnlyOnAck ==
    \A c \in Running :
        /\ Done(c) => /\ hist[c].acked /\ AckedLast(c)
                      /\ store.doc = cl[c].currentContent
        /\ hist[c].acked => Done(c)
        /\ (Terminated(c) /\ ~AckedLast(c)) =>
               /\ Failed(c)
               /\ cl[c].error \in {"Unavailable", "NotFound", "Integrity", "NetworkError",
                                   "ConcurrentUpdates", "PermissionDenied", "Failed"}

C18_Witness ==
    \E c \in Running :
        /\ Done(c) /\ hist[c].conflictRetries = 2 /\ hist[c].putsInCycle = 2
        /\ cl[c].updateResponse = "ok"

\* the metadata response carries base64 text with at least one digit in it
HasInlinePayload(fileData) ==
    /\ fileData.encoding = "base64"
    /\ \E i \in DOMAIN fileData.content : fileData.content[i] # Ws

\* the call of session c has ended without a transport failure
Settled(c) == cl[c].pc = "returned" \/ (cl[c].pc = "threw" /\ cl[c].error # "Http")

(***************************************************************************)
(* C20.  fetchProjectsJsonWithSha sends the raw request exactly when the   *)
(* metadata response has no non-empty base64 payload, and two calls that   *)
(* read the same stored file return the same records whichever way the     *)
(* body travelled.                                                         *)
(***************************************************************************)
C20_SameRecordsEitherShape ==
    /\ \A c \in Clients :
           cl[c].fileData.ok => (cl[c].usedRaw <=> ~HasInlinePayload(cl[c].fileData))
    /\ \A c \in Clients : \A d \in Clients :
           (cl[c].pc = "returned" /\ Settled(d)) =>
               /\ cl[d].pc = "returned"
               /\ cl[d].items = cl[c].items

C20_Witness ==
    \E c \in Clients : \E d \in Clients :
        /\ cl[c].pc = "returned" /\ ~cl[c].usedRaw
        /\ cl[d].pc = "returned" /\ cl[d].usedRaw
        /\ \E i \in DOMAIN cl[c].fileData.content : cl[c].fileData.content[i] = Ws
        /\ cl[c].items = <<RecA, RecE>>

\* the text is JSON for something that is not an array
IsObjectText(text) == JsonParse(text).kind = "object"

\* the call of session c returned the records written in this text
ReturnedFrom(c, text) ==
    /\ JsonParse(text).kind = "array"
    /\ cl[c].items = JsonParse(text).items

FetchedVersion(c, n) ==
    cl[c].pc = "have" /\ cl[c].site = "fetch" /\ cl[c].sha = n

(***************************************************************************)
(* C22.  The text fetchProjectsJsonWithSha decodes is the text that was    *)
(* encoded: whatever version of the file a session has read, and however   *)
(* many times the text was read and written back before, the text in hand  *)
(* is the text the chain of rewrites started from.                         *)
(***************************************************************************)
C22_RoundTripIsIdentity ==
    \A c \in Clients : \A n \in DOMAIN hist :
        FetchedVersion(c, n) =>
            /\ cl[c].text = hist[n].text
            /\ cl[c].text = hist[n].origin

C22_Witness ==
    \E c \in Clients :
        /\ FetchedVersion(c, MaxTrips + 1)
        /\ hist[MaxTrips + 1].trips = MaxTrips
        /\ cl[c].text = <<91, 128512, 8364, 93>>

\* session c has decoded version n of the file, at whichever place
DecodedVersion(c, n) == cl[c].pc \in {"have", "verified"} /\ cl[c].sha = n

(***************************************************************************)
(* C23.  Every place that decodes the stored document reads the base64     *)
(* content as UTF-8 bytes: the text a session has decoded, in the fetch,   *)
(* in the verification read of save() or in updateSingleProject of         *)
(* docs/github-api.js, is the text the writer of that version encoded.     *)
(***************************************************************************)
C23_EveryDecoderReadsUtf8 ==
    \A c \in Clients : \A n \in DOMAIN hist :
        DecodedVersion(c, n) => cl[c].text = hist[n].text

\* the item the modal of the editor was opened on
OpenedItem == Doc0[FindIndex(Doc0, cl[Saver].itemHash)]

\* the fields of the form the user left as they were
LeftUnchanged == {f \in {"title", "description", "media"} :
                    cl[Saver].updates[f] = OpenedItem[f]}

(***************************************************************************)
(* C24.  A field the user left unchanged in the modal is not overwritten   *)
(* by save(): in the document save() has written, the edited record has    *)
(* in each such field the value of the document fetched for that write,    *)
(* so a value another session stored after the modal was opened is kept.   *)
(***************************************************************************)
C24_UnchangedFieldsKeepStoredValue ==
    LastPutAccepted(Saver) =>
        \A f \in LeftUnchanged :
            hist[Saver].body[hist[Saver].index][f]
                = hist[Saver].fetched[hist[Saver].index][f]

(***************************************************************************)
(* C25.  getToken() gives out the token only within 15 minutes of the      *)
(* last successful authenticate(): whenever an operation has obtained a    *)
(* token, an authentication had succeeded no more than 15 minutes before.  *)
(***************************************************************************)
C25_TokenExpires ==
    hist.issued # Null =>
        /\ hist.authAt # NoTime
        /\ hist.issuedAt - hist.authAt <= AuthTimeout

\* entries the modal shows: the media of the item and the pending files
ShownEntries == Len(cl[Saver].currentItem["media"]) + Len(cl[Saver].mediaFiles)

\* this step has added pending files
FilesAdded == Len(cl'[Saver].mediaFiles) > Len(cl[Saver].mediaFiles)

(***************************************************************************)
(* C26.  The editor never brings a micro action to more than 4 media       *)
(* entries: media of the item plus pending files are at most 4 at every    *)
(* moment, the media list save() passes to updateSingleProject and the     *)
(* media list of the stored record have at most 4 entries, and a step      *)
(* that adds pending files adds the whole batch that passed the filter.    *)
(***************************************************************************)
C26_AtMostFourMedia ==
    /\ [](/\ ShownEntries <= maxFiles
          /\ cl[Saver].pc = "updating" => Len(cl[Saver].updates["media"]) <= maxFiles
          /\ \A k \in DOMAIN store.doc : Len(store.doc[k]["media"]) <= maxFiles)
    /\ [][FilesAdded =>
            Len(cl'[Saver].mediaFiles) = Len(cl[Saver].mediaFiles) + hist'.batch]_vars

C26_Witness ==
    /\ store.sha = 2
    /\ Len(store.doc[1]["media"]) = maxFiles
    /\ store.doc[1]["media"][maxFiles] = "n1"
    /\ store.doc[1]["media"][1] = "u2"
    /\ hist.batch = MaxBatch

\* the urls of the media entries of a record
MediaUrls(item) == {item["media"][k] : k \in DOMAIN item["media"]}

(***************************************************************************)
(* C27.  In every record save() has written, backgroundImage is absent or  *)
(* is the url of one of the entries of the media list of that record.      *)
(***************************************************************************)
C27_BackgroundIsOneOfTheMedia ==
    \A k \in DOMAIN store.doc :
        HasOwn(store.doc[k], "backgroundImage") =>
            store.doc[k]["backgroundImage"] \in MediaUrls(store.doc[k])

\* the urls the pending files of the modal get when they are uploaded
PendingUrls(m) == [k \in DOMAIN m.mediaFiles |-> UrlOf(m.mediaFiles[k])]

\* this step is the call of updateSingleProject by save()
UpdateCalled == cl[Saver].pc # "updating" /\ cl'[Saver].pc = "updating"

\* this step is a failed upload
UploadFailed == cl[Saver].pc = "uploading" /\ cl'[Saver].pc = "ended"

(***************************************************************************)
(* C28.  save() calls updateSingleProject only when every pending file     *)
(* has been uploaded: at the call the uploaded entries are the pending     *)
(* files, one for one; and a failed upload ends save() with the stored     *)
(* document as it was and no call made.                                    *)
(***************************************************************************)
C28_UpdateOnlyAfterAllUploads ==
    /\ [][UpdateCalled => cl'[Saver].uploadedMedia = PendingUrls(cl'[Saver])]_vars
    /\ [][UploadFailed => store' = store /\ hist'.calls = 0]_vars

(***************************************************************************)
(* C29.  While delete() is in flight the modal cannot be left and the      *)
(* session cannot be logged out: the modal the deletion was started from   *)
(* is still open, with its item and its authentication, until              *)
(* deleteSingleProject has settled.                                        *)
(***************************************************************************)
C29_NothingStartsDuringDelete ==
    cl[Saver].pc = "deleting" =>
        /\ cl[Saver].disabled
        /\ cl[Saver].open
        /\ cl[Saver].authenticated

\* github-api.js has run, and had run when the ten seconds were over
LoadedInTime == store.githubAPI # "none" /\ ~hist.late

(***************************************************************************)
(* C30.  No order of the two scripts, the DOMContentLoaded event and the   *)
(* timers loses the notification: once github-api.js has run in time, a    *)
(* real EditModal is eventually created, and the error stub is put in      *)
(* its place only when github-api.js had not run within the ten seconds.   *)
(***************************************************************************)
C30_NoLostNotification ==
    /\ [](store.editModal = "stub" => hist.late)
    /\ LoadedInTime ~> store.editModal = "real"

C30_Witness ==
    /\ hist.missed
    /\ ~hist.late
    /\ store.editModal = "real"
    /\ store.timers = {}

\* no write of the modal has been accepted by the store
NothingSaved == store.sha = 1

(***************************************************************************)
(* C31.  The modal works on a copy: whatever is removed, added or ticked   *)
(* in the modal, as long as nothing was saved the item in the list of the  *)
(* page and the stored document are what they were when the page was       *)
(* loaded, also after close().                                             *)
(***************************************************************************)
C31_CloseWithoutSaveChangesNothing ==
    NothingSaved => /\ hist.opened = hist.first
                    /\ store.doc = <<hist.first>>

C31_Witness ==
    /\ ~cl[Saver].open
    /\ hist.edited
    /\ cl[Saver].pendingBackgroundIndex # 0
    /\ NothingSaved

\* the reads of session c that came back with a record sequence
ReadsReturned(c) == {i \in OkFetches(c) : "at" \in DOMAIN log[c][i]}

(***************************************************************************)
(* C32.  The sha and the records returned by one call of                   *)
(* fetchProjectsJsonWithSha are of one version of the document: the sha    *)
(* returned is the sha the store had when the body was read, also when     *)
(* the body comes with a second request.                                   *)
(***************************************************************************)
C32_ShaAndRecordsOfOneVersion ==
    \A c \in Clients : \A i \in ReadsReturned(c) : log[c][i].sha = log[c][i].at

\* the writes of session c that the store applied
AppliedPuts(c) ==
    {i \in Events(c, "put") :
        \/ log[c][i].resp = "ok"
        \/ "applied" \in DOMAIN log[c][i] /\ log[c][i].applied}

(***************************************************************************)
(* C33.  An operation that reports failure to its caller has changed       *)
(* nothing: the store applied none of its writes, also when the response   *)
(* to a write was lost after the store had applied it.                     *)
(***************************************************************************)
C33_FailureMeansNothingWritten ==
    \A c \in Clients : Failed(c) => AppliedPuts(c) = {}

\* the writes of session c that the store accepted
AcceptedPuts(c) == {i \in Events(c, "put") : log[c][i].resp = "ok"}

(***************************************************************************)
(* C34.  updateProjects(projectsData) discards no change of another        *)
(* writer: once it has succeeded, a change the other session committed     *)
(* after the caller loaded the document and before the accepted write is   *)
(* in the stored document.                                                  *)
(***************************************************************************)
C34_WholeWriteKeepsOtherChanges ==
    \A i \in AcceptedPuts("c1") : \A j \in AcceptedPuts("c2") :
        log["c2"][j].sha < log["c1"][i].sha => ChangeIn(store.doc, cl["c2"])

(***************************************************************************)
(* C35.  The credential in memory is one that was accepted: a password     *)
(* for which authenticate() returned false, and never true, is not what    *)
(* getToken() gives to an operation.                                       *)
(***************************************************************************)
C35_RejectedTokenNotGivenOut ==
    hist.issued # Null => hist.issued \notin hist.rejected \ hist.accepted

\* the stored record of the item the modal was opened on
StoredItem == store.doc[FindIndex(store.doc, hist.first["hash"])]

\* the stored backgroundImage, null when the record has none
StoredBackground ==
    IF HasOwn(StoredItem, "backgroundImage") THEN StoredItem["backgroundImage"]
    ELSE Null

\* the save of this session has been accepted by the store
SessionSaved == store.sha > 1

\* urls that uploaded files get
UploadUrls == {UrlOf(f) : f \in {"f1", "f2", "fbad"}}

(***************************************************************************)
(* C36.  No choice survives a session: when the save of a session is       *)
(* accepted and no pending file was ticked as the background in that       *)
(* session, the stored backgroundImage is not the url of an uploaded file. *)
(***************************************************************************)
C36_ChoiceDoesNotOutliveSession ==
    (SessionSaved /\ ~hist.choseNew) => StoredBackground \notin UploadUrls

(***************************************************************************)
(* C37.  The backgroundImage that save() writes is that of the checkbox    *)
(* ticked when Save is pressed: once the save is accepted, the stored      *)
(* backgroundImage is the url the ticked checkbox stood for, and there is  *)
(* none when no checkbox was ticked.                                       *)
(***************************************************************************)
C37_BackgroundIsTheTickedOne ==
    SessionSaved =>
        IF hist.atSave = {} THEN StoredBackground = Null
        ELSE StoredBackground \in hist.atSave

\* a save() is between its first upload and the answer to its write
SaveInProgress == cl[Saver].pc \in {"uploading", "updating"}

(***************************************************************************)
(* C38.  A save() in progress is left alone: while it uploads or writes,   *)
(* no step closes the modal, so that currentItem and mediaFiles, which     *)
(* the save reads after each await, are not reset under it.                *)
(***************************************************************************)
C38_SaveIsLeftAlone ==
    [][SaveInProgress => cl'[Saver].open]_vars

(***************************************************************************)
(* C39.  Whenever github-api.js has run, be it after the ten seconds, a    *)
(* click on the edit button eventually brings up the modal and not the     *)
(* notice that the API failed to load.                                     *)
(***************************************************************************)
C39_LateApiStillGivesModal ==
    store.githubAPI # "none" ~> store.shown = "modal"

====
